---- MODULE Spec2Model ----
(***************************************************************************)
(* Model of the AMS-attendance schedule import engine, the complete-mode   *)
(* schedule extractor and the admin CRUD handlers of app.py.               *)
(*                                                                         *)
(* The persisted store is the set of committed rows of each table.  An     *)
(* import run walks the entry sequence of one document; every entry is one *)
(* step.  A persistence call is allowed to fail (the `fault` parameter of  *)
(* a step names the commit that raises).                                   *)
(***************************************************************************)
EXTENDS Integers, Sequences, FiniteSets, TLC

(***************************************************************************)
(* Bounds of the model.                                                    *)
(***************************************************************************)
MaxEntries == 2      \* longest entry sequence of a document
MaxRuns == 2         \* import runs in one behaviour
MaxFaults == 1       \* store failures injected in one behaviour
MaxRows == 2         \* largest row id an admin handler hands out
MaxCols == 3         \* period columns right of the class column
MaxDataRows == 1     \* rows read below the period-header row of a page

(***************************************************************************)
(* Python None.  Names are strings, days and times are integers.           *)
(***************************************************************************)
None == "<None>"
NoDay == -1
NoTime == -1

(***************************************************************************)
(* TIME_PERIODS: period id -> (start, end), in minutes after midnight.     *)
(***************************************************************************)
AllPeriods == 1..10

TIME_PERIODS ==
    [p \in AllPeriods |->
        CASE p = 1 -> <<510, 545>>
          [] p = 2 -> <<545, 580>>
          [] p = 3 -> <<580, 620>>
          [] p = 4 -> <<620, 660>>
          [] p = 5 -> <<660, 700>>
          [] p = 6 -> <<700, 740>>
          [] p = 7 -> <<740, 780>>
          [] p = 8 -> <<780, 820>>
          [] p = 9 -> <<820, 855>>
          [] p = 10 -> <<855, 890>>]

FreeSubjectName == "Free Period"
NoTeacherName == "No Teacher"

(***************************************************************************)
(* The entries a document can hold.  An academic entry names a class, a    *)
(* teacher and a subject (the subject may be missing: a malformed entry);  *)
(* a free entry is the complete-mode placeholder.                          *)
(***************************************************************************)
ClassNames == {"1A", "1B"}
TeacherNames == {"T1", "T2"}
SubjectNames == {"Math"}
FloorNumbers == {1}
Variants == {"sparse", "smart", "complete", "from_pdf"}

Entry(c, t, s, d, p, free) ==
    [class_name |-> c, teacher |-> t, subject |-> s, day |-> d,
     start_time |-> TIME_PERIODS[p][1], end_time |-> TIME_PERIODS[p][2],
     period |-> p, is_free |-> free]

EntryPool ==
    { Entry(c, t, "Math", 0, 1, FALSE) : c \in ClassNames, t \in TeacherNames }
    \cup { Entry("1A", "T1", None, 0, 1, FALSE),
           Entry("1B", NoTeacherName, FreeSubjectName, 0, 1, TRUE) }

RECURSIVE SeqsUpTo(_, _)
SeqsUpTo(S, n) ==
    IF n = 0 THEN { <<>> }
    ELSE LET shorter == SeqsUpTo(S, n - 1)
         IN shorter \cup { Append(q, e) : q \in { x \in shorter : Len(x) = n - 1 }, e \in S }

Documents == SeqsUpTo(EntryPool, MaxEntries)

VARIABLES
    floors,      \* committed Floor rows      [id, number]
    classes,     \* committed Class rows      [id, name, floor_id]
    teachers,    \* committed Teacher rows    [id, name]
    subjects,    \* committed Subject rows    [id, name]
    schedules,   \* committed Schedule rows
    doc,         \* the entry sequence extracted from the document at hand
    run,         \* the import run in progress, or the last one
    txDeleted,   \* ids of Schedule rows deleted in the open transaction
    hist,        \* history of the run: see IdleHist
    budget,      \* runs started and store failures injected so far
    pdf,         \* the extractor at work on a PDF: see ClosedPdf
    batch,       \* main() at work on its list of floors: see IdleBatch
    attendances, \* committed Attendance rows
    today,       \* datetime.now().date(), counted in days
    request      \* the mark_attendance request served last: see NoRequest

vars == <<floors, classes, teachers, subjects, schedules, doc, run, txDeleted, hist,
          budget, pdf, batch, attendances, today, request>>

store == <<floors, classes, teachers, subjects, schedules>>

(***************************************************************************)
(* Row helpers.                                                            *)
(***************************************************************************)
Ids(rows) == { r.id : r \in rows }

\* SQLite rowid of a new row: one more than the largest one in the table.
NextId(rows) ==
    IF rows = {} THEN 1
    ELSE (CHOOSE i \in Ids(rows) : \A j \in Ids(rows) : j <= i) + 1

\* Query.first(): the matching row SQLite scans first, the lowest rowid.
First(rows) == CHOOSE r \in rows : \A q \in rows : r.id <= q.id

NaturalKey(s) == <<s.class_id, s.day_of_week, s.start_time, s.end_time>>


(***************************************************************************)
(* The statistics record of a run.  Every variant keeps its own subset of  *)
(* the counters; a counter a variant does not have stays 0.                *)
(***************************************************************************)
ZeroStats(total) ==
    [total |-> total, processed |-> 0, imported |-> 0, skipped_duplicate |-> 0,
     skipped_invalid |-> 0, errors |-> 0, skipped |-> 0,
     free_periods |-> 0, academic |-> 0,
     classes_created |-> {}, teachers_created |-> {}, subjects_created |-> {}]

Bump(stats, field) == [stats EXCEPT ![field] = @ + 1]

\* Count with a duplicate counted as an import.
CountDuplicateAsImported(variant, stats, outcome, e) ==
    IF outcome = "duplicate"
    THEN Bump(Bump(stats, "imported"),
              IF variant = "sparse" THEN "skipped_duplicate" ELSE "skipped")
    ELSE IF outcome = "error" THEN Bump(stats, "errors")
    ELSE IF outcome = "invalid" THEN Bump(stats, "skipped_invalid")
    ELSE Bump(stats, "imported")

\* The counters one entry's outcome moves, as each variant's loop does it.
Count(variant, stats, outcome, e) ==
    CASE variant = "sparse" ->
            CASE outcome = "invalid" -> Bump(stats, "skipped_invalid")
              [] outcome = "duplicate" -> Bump(stats, "skipped_duplicate")
              [] outcome = "error" -> Bump(stats, "errors")
              [] OTHER -> Bump(stats, "imported")
      [] variant = "smart" ->
            CASE outcome = "duplicate" -> Bump(stats, "skipped")
              [] outcome = "error" -> Bump(stats, "errors")
              [] OTHER -> Bump(stats, "imported")
      [] variant = "complete" ->
            CASE outcome = "duplicate" -> Bump(stats, "skipped")
              [] outcome = "error" -> stats
              [] OTHER -> Bump(Bump(stats, "imported"),
                               IF e.is_free THEN "free_periods" ELSE "academic")
      [] OTHER ->
            LET st == Bump(stats, "processed")
            IN CASE outcome \in {"invalid", "duplicate"} -> Bump(st, "skipped")
                 [] outcome = "error" -> Bump(st, "errors")
                 [] OTHER -> Bump(st, "imported")

\* The names a step adds to the created-entity statistics.
Created(variant, stats, e, made) ==
    [stats EXCEPT
        !.classes_created = IF made.class THEN @ \cup {e.class_name} ELSE @,
        !.teachers_created =
            IF made.teacher /\ variant # "complete" THEN @ \cup {e.teacher} ELSE @,
        !.subjects_created =
            IF made.subject /\ variant # "complete" THEN @ \cup {e.subject} ELSE @]

(***************************************************************************)
(* Get-or-create: query by name, insert and commit when there is no match. *)
(* `fails` says that the insert's commit raises (a NOT NULL column left    *)
(* empty, or a failure of the store).                                      *)
(***************************************************************************)
\* GetOrCreate without the query: the row is inserted whether or not one matches.
CreateWithoutLookup(rows, match, new, fails) ==
    IF fails THEN [rows |-> rows, id |-> 0, ok |-> FALSE, made |-> FALSE]
    ELSE [rows |-> rows \cup {new}, id |-> new.id, ok |-> TRUE, made |-> TRUE]

GetOrCreate(rows, match, new, fails) ==
    IF match # {} THEN [rows |-> rows, id |-> First(match).id, ok |-> TRUE, made |-> FALSE]
    ELSE IF fails THEN [rows |-> rows, id |-> 0, ok |-> FALSE, made |-> FALSE]
    ELSE [rows |-> rows \cup {new}, id |-> new.id, ok |-> TRUE, made |-> TRUE]

\* all([...]) of the sparse variant's validation.
AllPresent(e) ==
    /\ e.class_name # None /\ e.subject # None /\ e.teacher # None
    /\ e.start_time # NoTime /\ e.end_time # NoTime /\ e.day # NoDay

\* ExistingSchedule with the end time compared with the row's start time.
ExistingScheduleWrongTime(rows, cid, e) ==
    { s \in rows : /\ s.class_id = cid /\ s.day_of_week = e.day
                   /\ s.start_time = e.end_time /\ s.end_time = e.end_time }

\* Schedule.query.filter_by(class_id, day_of_week, start_time, end_time)
ExistingSchedule(rows, cid, e) ==
    { s \in rows : /\ s.class_id = cid /\ s.day_of_week = e.day
                   /\ s.start_time = e.start_time /\ s.end_time = e.end_time }

\* OnDuplicate as an upsert: the row found takes the entry's teacher and subject.
OnDuplicateUpdate(st, existing, tid, sid) ==
    [st EXCEPT !.schedules =
        { IF s \in existing THEN [s EXCEPT !.teacher_id = tid, !.subject_id = sid] ELSE s
            : s \in @ }]

\* `if existing: ... continue`: the row found is left as it is.
OnDuplicate(st, existing, tid, sid) == st

Out(st, outcome, mc, mt, ms) ==
    [st |-> st, outcome |-> outcome,
     made |-> [class |-> mc, teacher |-> mt, subject |-> ms]]

(***************************************************************************)
(* One iteration of the import loop: the body of `for idx, entry in ...`.  *)
(* st is the committed store, fid the floor's id, sent the sentinel rows   *)
(* of the complete variant, fault the commit that raises in this           *)
(* iteration ("none", "class", "teacher", "subject" or "schedule").        *)
(***************************************************************************)
ImportEntry(variant, e, fid, sent, fault, st) ==
    LET invalid0 ==
            \/ variant = "sparse" /\ ~AllPresent(e)
            \/ variant = "from_pdf" /\
                 (e.day = NoDay \/ e.start_time = NoTime \/ e.end_time = NoTime
                    \/ e.class_name = None)
        cls == GetOrCreate(st.classes,
                   { c \in st.classes : c.name = e.class_name /\ c.floor_id = fid },
                   [id |-> NextId(st.classes), name |-> e.class_name, floor_id |-> fid],
                   e.class_name = None \/ fault = "class")
        st1 == [st EXCEPT !.classes = cls.rows]
        useSentinel == variant = "complete" /\ e.is_free
        tch == IF useSentinel
               THEN [rows |-> st.teachers, id |-> sent.teacher_id, ok |-> TRUE, made |-> FALSE]
               ELSE GetOrCreate(st.teachers,
                        { t \in st.teachers : t.name = e.teacher },
                        [id |-> NextId(st.teachers), name |-> e.teacher],
                        e.teacher = None \/ fault = "teacher")
        st2 == [st1 EXCEPT !.teachers = tch.rows]
        sub == IF useSentinel
               THEN [rows |-> st.subjects, id |-> sent.subject_id, ok |-> TRUE, made |-> FALSE]
               ELSE GetOrCreate(st.subjects,
                        { s \in st.subjects : s.name = e.subject },
                        [id |-> NextId(st.subjects), name |-> e.subject],
                        e.subject = None \/ fault = "subject")
        st3 == [st2 EXCEPT !.subjects = sub.rows]
        existing == ExistingSchedule(st.schedules, cls.id, e)
        insertFails ==
            \/ fault = "schedule"
            \/ e.day = NoDay \/ e.start_time = NoTime \/ e.end_time = NoTime
        row == [id |-> NextId(st.schedules), class_id |-> cls.id, teacher_id |-> tch.id,
                subject_id |-> sub.id, day_of_week |-> e.day,
                start_time |-> e.start_time, end_time |-> e.end_time]
    IN  IF invalid0 THEN Out(st, "invalid", FALSE, FALSE, FALSE)
        ELSE IF ~cls.ok THEN Out(st, "error", FALSE, FALSE, FALSE)
        ELSE IF variant = "from_pdf" /\ e.teacher = None
            THEN Out(st1, "invalid", cls.made, FALSE, FALSE)
        ELSE IF ~tch.ok THEN Out(st1, "error", cls.made, FALSE, FALSE)
        ELSE IF variant = "from_pdf" /\ e.subject = None
            THEN Out(st2, "invalid", cls.made, tch.made, FALSE)
        ELSE IF ~sub.ok THEN Out(st2, "error", cls.made, tch.made, FALSE)
        ELSE IF existing # {}
            THEN Out(OnDuplicate(st3, existing, tch.id, sub.id), "duplicate",
                     cls.made, tch.made, sub.made)
        ELSE IF insertFails THEN Out(st3, "error", cls.made, tch.made, sub.made)
        ELSE Out([st3 EXCEPT !.schedules = @ \cup {row}], "imported",
                 cls.made, tch.made, sub.made)

Faults == {"none", "class", "teacher", "subject", "schedule"}

(***************************************************************************)
(* The run record.  phase is the run's position: "idle" before the first   *)
(* run, "clear" inside the clear-existing step, "loop" inside the entry    *)
(* loop, "done" after the summary, "aborted" when an exception left        *)
(* import_to_database.                                                     *)
(***************************************************************************)
NoSentinel == [teacher_id |-> 0, subject_id |-> 0]

IdleRun ==
    [variant |-> "sparse", floor_number |-> 0, floor_id |-> 0, clear |-> FALSE,
     phase |-> "idle", idx |-> 1, todo |-> {}, sent |-> NoSentinel,
     stats |-> ZeroStats(0), clean |-> TRUE]

\* History of the run: the outcome of the last loop iteration, whether the run
\* directly follows a run on the same floor that completed without an error,
\* whether a step of the run changed the Schedule table, and the floor's
\* Schedule rows at the start of the clear step.
NothingMade == [class |-> FALSE, teacher |-> FALSE, subject |-> FALSE]

IdleHist ==
    [last |-> "none", made |-> NothingMade, repeat |-> FALSE, same |-> FALSE,
     changed |-> FALSE, old |-> {}]

\* extract_schedules_from_pdf before its first page and between two pages:
\* the day and period columns of the page at hand, the index of the table row
\* at hand, that row (phase "row"), and the entries it appended to all_schedules.
ClosedPdf ==
    [phase |-> "closed", day_num |-> NoDay, period_columns |-> <<>>, row_idx |-> 0,
     period_row_idx |-> 0, row |-> <<>>, emitted |-> <<>>]

\* A NULL minutes_late.
NoMinutes == -1

\* Before the first mark_attendance request: n counts the requests served, the
\* other fields are the URL's schedule id and the form of the last one.
NoRequest ==
    [n |-> 0, schedule_id |-> 0, status |-> "none", actual_time |-> NoTime, notes |-> ""]

\* main() before it starts on floors_to_import: the variant it belongs to, its
\* place in the list and how the extraction of each floor so far ended.
IdleBatch == [phase |-> "idle", variant |-> "none", pos |-> 0, outcomes |-> <<>>]

Init ==
    /\ floors = {} /\ classes = {} /\ teachers = {} /\ subjects = {} /\ schedules = {}
    /\ doc \in Documents
    /\ run = IdleRun
    /\ txDeleted = {}
    /\ hist = IdleHist
    /\ budget = [runs |-> 0, faults |-> 0]
    /\ pdf = ClosedPdf
    /\ batch = IdleBatch
    /\ attendances = {}
    /\ today = 1
    /\ request = NoRequest

\* Floor.query.filter_by(number=floor_number).first(), created when absent.
GetOrCreateFloor(rows, number) ==
    GetOrCreate(rows, { f \in rows : f.number = number },
                [id |-> NextId(rows), number |-> number], FALSE)

\* ClassesOfFloor without the filter on floor_id.
ClassesOfAnyFloor(cs, fid) == cs

ClassesOfFloor(cs, fid) == { c \in cs : c.floor_id = fid }

SchedulesOfFloor(ss, cs, fid) ==
    { s \in ss : s.class_id \in Ids(ClassesOfFloor(cs, fid)) }

\* The "Free Period" subject and the "No Teacher" teacher of the complete variant.
FreeSubject(rows) ==
    GetOrCreate(rows, { s \in rows : s.name = FreeSubjectName },
                [id |-> NextId(rows), name |-> FreeSubjectName], FALSE)

NoTeacher(rows) ==
    GetOrCreate(rows, { t \in rows : t.name = NoTeacherName },
                [id |-> NextId(rows), name |-> NoTeacherName], FALSE)

RunOver == run.phase \in {"idle", "done", "aborted"}

\* The run that just ended completed on this floor and no entry of it failed.
Repeats(r, number) == r.phase = "done" /\ r.clean /\ r.floor_number = number

(***************************************************************************)
(* import_to_database is called: the floor is resolved; the complete       *)
(* variant then clears (when asked to) and resolves its sentinel rows.     *)
(* The sparse variant returns at once on an empty sequence.                *)
(***************************************************************************)
StartRun(variant, number, clear) ==
    /\ RunOver
    /\ budget.runs < MaxRuns
    /\ budget' = [budget EXCEPT !.runs = @ + 1]
    /\ clear => variant = "complete"
    /\ LET early == variant = "sparse" /\ doc = <<>>
           fl == GetOrCreateFloor(floors, number)
           sentinels == variant = "complete" /\ ~clear
           fs == FreeSubject(subjects)
           nt == NoTeacher(teachers)
       IN /\ floors' = IF early THEN floors ELSE fl.rows
          /\ subjects' = IF sentinels THEN fs.rows ELSE subjects
          /\ teachers' = IF sentinels THEN nt.rows ELSE teachers
          /\ run' = [variant |-> variant, floor_number |-> number,
                     floor_id |-> IF early THEN 0 ELSE fl.id, clear |-> clear,
                     phase |-> IF early THEN "done"
                               ELSE IF clear THEN "clear"
                               ELSE IF doc = <<>> THEN "done" ELSE "loop",
                     idx |-> 1,
                     todo |-> IF clear THEN Ids(ClassesOfFloor(classes, fl.id)) ELSE {},
                     sent |-> IF sentinels
                              THEN [teacher_id |-> nt.id, subject_id |-> fs.id]
                              ELSE NoSentinel,
                     stats |-> ZeroStats(Len(doc)), clean |-> TRUE]
          /\ hist' = [last |-> "none", made |-> NothingMade,
                      repeat |-> Repeats(run, number),
                      same |-> Repeats(run, number) /\ run.variant = variant,
                      changed |-> FALSE,
                      old |-> IF clear THEN SchedulesOfFloor(schedules, classes, fl.id)
                              ELSE {}]
    /\ txDeleted' = {}
    /\ UNCHANGED <<classes, schedules, doc, pdf>>

(***************************************************************************)
(* Clear-existing: Schedule.query.filter_by(class_id=...).delete() for one *)
(* class of the floor.  The DELETE runs inside the session's open          *)
(* transaction: the committed rows do not change before the commit.        *)
(***************************************************************************)
\* CommittedAfterDelete with every DELETE committed on its own.
DeleteAutocommit(ss, cid) == { s \in ss : s.class_id # cid }

\* The committed Schedule rows after the bulk DELETE of one class: the same
\* rows, the statement is not committed on its own.
CommittedAfterDelete(ss, cid) == ss

ClearDelete(cid) ==
    /\ run.phase = "clear"
    /\ cid \in run.todo
    /\ schedules' = CommittedAfterDelete(schedules, cid)
    /\ txDeleted' = txDeleted \cup { s.id : s \in { x \in schedules : x.class_id = cid } }
    /\ run' = [run EXCEPT !.todo = @ \ {cid}]
    /\ hist' = [hist EXCEPT !.last = "none", !.made = NothingMade]
    /\ UNCHANGED <<floors, classes, teachers, subjects, doc, pdf, batch, budget>>

\* db.session.commit() of the clear step, then the sentinel rows.
ClearCommit ==
    /\ run.phase = "clear"
    /\ run.todo = {}
    /\ LET fs == FreeSubject(subjects)
           nt == NoTeacher(teachers)
       IN /\ schedules' = { s \in schedules : s.id \notin txDeleted }
          /\ subjects' = fs.rows
          /\ teachers' = nt.rows
          /\ run' = [run EXCEPT !.phase = IF doc = <<>> THEN "done" ELSE "loop",
                                !.sent = [teacher_id |-> nt.id, subject_id |-> fs.id]]
    /\ txDeleted' = {}
    /\ hist' = [hist EXCEPT !.last = "none", !.made = NothingMade,
                            !.changed = @ \/ schedules' # schedules]
    /\ UNCHANGED <<floors, classes, doc, pdf, batch, budget>>

\* ClearFail with the exception caught inside import_to_database: the
\* transaction is rolled back and the entry loop runs all the same.
ClearFailCaught ==
    /\ run.phase = "clear"
    /\ budget.faults < MaxFaults
    /\ budget' = [budget EXCEPT !.faults = @ + 1]
    /\ txDeleted' = {}
    /\ LET fs == FreeSubject(subjects)
           nt == NoTeacher(teachers)
       IN /\ subjects' = fs.rows
          /\ teachers' = nt.rows
          /\ run' = [run EXCEPT !.phase = IF doc = <<>> THEN "done" ELSE "loop",
                                !.sent = [teacher_id |-> nt.id, subject_id |-> fs.id],
                                !.clean = FALSE]
    /\ hist' = [hist EXCEPT !.last = "none", !.made = NothingMade]
    /\ UNCHANGED <<floors, classes, schedules, doc, pdf, batch>>

\* A delete or the commit of the clear step raises: nothing catches it inside
\* import_to_database, the open transaction is rolled back with the session.
ClearFail ==
    /\ run.phase = "clear"
    /\ budget.faults < MaxFaults
    /\ budget' = [budget EXCEPT !.faults = @ + 1]
    /\ txDeleted' = {}
    /\ run' = [run EXCEPT !.phase = "aborted", !.clean = FALSE]
    /\ hist' = [hist EXCEPT !.last = "none", !.made = NothingMade]
    /\ UNCHANGED <<floors, classes, teachers, subjects, schedules, doc, pdf, batch>>

(***************************************************************************)
(* One entry of the loop is processed; after the last one the summary is   *)
(* printed and the run is done.                                            *)
(***************************************************************************)
ProcessEntry(fault) ==
    /\ run.phase = "loop"
    /\ run.idx <= Len(doc)
    /\ fault # "none" => budget.faults < MaxFaults
    /\ budget' = IF fault = "none" THEN budget ELSE [budget EXCEPT !.faults = @ + 1]
    /\ LET e == doc[run.idx]
           st == [classes |-> classes, teachers |-> teachers,
                  subjects |-> subjects, schedules |-> schedules]
           r == ImportEntry(run.variant, e, run.floor_id, run.sent, fault, st)
       IN \* a failure is injected only where the iteration reaches that commit
          /\ fault # "none" =>
                r # ImportEntry(run.variant, e, run.floor_id, run.sent, "none", st)
          /\ classes' = r.st.classes
          /\ teachers' = r.st.teachers
          /\ subjects' = r.st.subjects
          /\ schedules' = r.st.schedules
          /\ run' = [run EXCEPT
                        !.idx = @ + 1,
                        !.phase = IF run.idx = Len(doc) THEN "done" ELSE "loop",
                        !.stats = Created(run.variant,
                                          Count(run.variant, @, r.outcome, e),
                                          e, r.made),
                        !.clean = @ /\ r.outcome # "error"]
          /\ hist' = [hist EXCEPT !.last = r.outcome, !.made = r.made,
                                  !.changed = @ \/ r.st.schedules # schedules]
    /\ UNCHANGED <<floors, doc, pdf, batch, txDeleted>>

ImportStep ==
    \/ \E v \in Variants, n \in FloorNumbers, c \in BOOLEAN :
          StartRun(v, n, c) /\ batch' = batch
    \/ \E cid \in Ids(classes) : ClearDelete(cid)
    \/ ClearCommit
    \/ ClearFail
    \/ \E f \in Faults : ProcessEntry(f)

\* The importers never touch the Attendance table.
NoAttendance == UNCHANGED <<attendances, today, request>>

Next == ImportStep /\ NoAttendance

Spec == Init /\ [][Next]_vars

(***************************************************************************)
(* The admin handlers of app.py.  A request is served between import runs. *)
(* The form values are whatever the request carries: an id need not be the *)
(* id of a row (SQLite does not enforce the foreign keys of the schema     *)
(* unless asked to, and app.py never asks).  get_or_404 is the guard of a  *)
(* handler: a request for a missing row changes nothing.                   *)
(***************************************************************************)
FormIds == 1..MaxRows
\* day_of_week, start_time and end_time of the schedule form: the handlers take
\* them as they come.  The times are those of the first period, entered in
\* order or with the two fields swapped.
FormDays == {0, 7}
FormTimes == { TIME_PERIODS[1], <<TIME_PERIODS[1][2], TIME_PERIODS[1][1]>> }

\* The names the class and teacher forms carry.
FormClassNames == {"1A"}
FormTeacherNames == {"T1"}

Row(rows, id) == CHOOSE r \in rows : r.id = id

\* teacher.schedules / subject.schedules: the rows that refer to the entity.
SchedulesOfTeacher(tid) == { s \in schedules : s.teacher_id = tid }

SchedulesOfSubject(sid) == { s \in schedules : s.subject_id = sid }

\* schedule.attendances / teacher.attendances: the rows that refer to the entity.
AttendancesOfSchedule(sid) == { a \in attendances : a.schedule_id = sid }

AttendancesOfTeacher(tid) == { a \in attendances : a.teacher_id = tid }

\* Deleting the classes `gone` with their schedules leaves an Attendance row of
\* one of those schedules behind: the relationship Schedule.attendances has no
\* cascade, the row's schedule_id is set to NULL, the column is NOT NULL and
\* the commit raises.
Orphaned(gone) ==
    \E a \in attendances, s \in schedules :
        a.schedule_id = s.id /\ s.class_id \in gone /\ a.class_id \notin gone

Served ==
    /\ RunOver
    /\ txDeleted' = txDeleted
    /\ run' = run
    /\ hist' = hist
    /\ doc' = doc
    /\ budget' = budget
    /\ pdf' = pdf
    /\ batch' = batch
    /\ today' = today
    /\ request' = request

\* add_floor: Floor.number is unique, a second floor of a number is refused.
add_floor(number) ==
    /\ Served
    /\ NextId(floors) <= MaxRows
    /\ \A f \in floors : f.number # number
    /\ floors' = floors \cup {[id |-> NextId(floors), number |-> number]}
    /\ UNCHANGED <<classes, teachers, subjects, schedules, attendances>>

\* edit_floor: Floor.number is unique, a taken number fails the commit.
edit_floor(floor_id, number) ==
    /\ Served
    /\ floor_id \in Ids(floors)
    /\ \A f \in floors : f.id # floor_id => f.number # number
    /\ floors' = { IF f.id = floor_id THEN [f EXCEPT !.number = number] ELSE f
                     : f \in floors }
    /\ UNCHANGED <<classes, teachers, subjects, schedules, attendances>>

\* delete_floor: the floor's classes and their schedules go with it.
delete_floor(floor_id) ==
    /\ Served
    /\ floor_id \in Ids(floors)
    /\ LET gone == Ids(ClassesOfFloor(classes, floor_id))
       IN  IF Orphaned(gone)
           THEN UNCHANGED <<floors, classes, schedules, attendances>>
           ELSE /\ floors' = { f \in floors : f.id # floor_id }
                /\ classes' = { c \in classes : c.floor_id # floor_id }
                /\ schedules' = { s \in schedules : s.class_id \notin gone }
                /\ attendances' = { a \in attendances : a.class_id \notin gone }
    /\ UNCHANGED <<teachers, subjects>>

add_class(name, floor_id) ==
    /\ Served
    /\ NextId(classes) <= MaxRows
    /\ classes' = classes \cup {[id |-> NextId(classes), name |-> name,
                                 floor_id |-> floor_id]}
    /\ UNCHANGED <<floors, teachers, subjects, schedules, attendances>>

edit_class(class_id, name, floor_id) ==
    /\ Served
    /\ class_id \in Ids(classes)
    /\ classes' = { IF c.id = class_id
                    THEN [c EXCEPT !.name = name, !.floor_id = floor_id] ELSE c
                      : c \in classes }
    /\ UNCHANGED <<floors, teachers, subjects, schedules, attendances>>

\* delete_class: cascade='all, delete-orphan' on Class.schedules.
delete_class(class_id) ==
    /\ Served
    /\ class_id \in Ids(classes)
    /\ IF Orphaned({class_id})
       THEN UNCHANGED <<classes, schedules, attendances>>
       ELSE /\ classes' = { c \in classes : c.id # class_id }
            /\ schedules' = { s \in schedules : s.class_id # class_id }
            /\ attendances' = { a \in attendances : a.class_id # class_id }
    /\ UNCHANGED <<floors, teachers, subjects>>

add_teacher(name) ==
    /\ Served
    /\ NextId(teachers) <= MaxRows
    /\ teachers' = teachers \cup {[id |-> NextId(teachers), name |-> name]}
    /\ UNCHANGED <<floors, classes, subjects, schedules, attendances>>

edit_teacher(teacher_id, name) ==
    /\ Served
    /\ teacher_id \in Ids(teachers)
    /\ teachers' = { IF t.id = teacher_id THEN [t EXCEPT !.name = name] ELSE t
                       : t \in teachers }
    /\ UNCHANGED <<floors, classes, subjects, schedules, attendances>>

\* The delete guard: `if teacher.schedules:` flashes an error and returns.
TeacherDeletable(teacher_id) == SchedulesOfTeacher(teacher_id) = {}

delete_teacher(teacher_id) ==
    /\ Served
    /\ teacher_id \in Ids(teachers)
    /\ teachers' = IF TeacherDeletable(teacher_id) /\ AttendancesOfTeacher(teacher_id) = {}
                   THEN { t \in teachers : t.id # teacher_id }
                   ELSE teachers
    /\ UNCHANGED <<floors, classes, subjects, schedules, attendances>>

\* add_subject: Subject.name is unique.
add_subject(name) ==
    /\ Served
    /\ NextId(subjects) <= MaxRows
    /\ \A x \in subjects : x.name # name
    /\ subjects' = subjects \cup {[id |-> NextId(subjects), name |-> name]}
    /\ UNCHANGED <<floors, classes, teachers, schedules, attendances>>

\* edit_subject: Subject.name is unique, a taken name fails the commit.
edit_subject(subject_id, name) ==
    /\ Served
    /\ subject_id \in Ids(subjects)
    /\ \A x \in subjects : x.id # subject_id => x.name # name
    /\ subjects' = { IF x.id = subject_id THEN [x EXCEPT !.name = name] ELSE x
                       : x \in subjects }
    /\ UNCHANGED <<floors, classes, teachers, schedules, attendances>>

SubjectDeletable(subject_id) == SchedulesOfSubject(subject_id) = {}

delete_subject(subject_id) ==
    /\ Served
    /\ subject_id \in Ids(subjects)
    /\ subjects' = IF SubjectDeletable(subject_id)
                   THEN { x \in subjects : x.id # subject_id }
                   ELSE subjects
    /\ UNCHANGED <<floors, classes, teachers, schedules, attendances>>

\* add_schedule: the row is built from the form and committed; nothing is
\* looked up but the class of the URL.
add_schedule(class_id, teacher_id, subject_id, day_of_week, start_time, end_time) ==
    /\ Served
    /\ class_id \in Ids(classes)
    /\ NextId(schedules) <= MaxRows
    /\ schedules' = schedules \cup
          {[id |-> NextId(schedules), class_id |-> class_id, teacher_id |-> teacher_id,
            subject_id |-> subject_id, day_of_week |-> day_of_week,
            start_time |-> start_time, end_time |-> end_time]}
    /\ UNCHANGED <<floors, classes, teachers, subjects, attendances>>

edit_schedule(schedule_id, teacher_id, subject_id, day_of_week, start_time, end_time) ==
    /\ Served
    /\ schedule_id \in Ids(schedules)
    /\ schedules' = { IF s.id = schedule_id
                      THEN [s EXCEPT !.teacher_id = teacher_id, !.subject_id = subject_id,
                                     !.day_of_week = day_of_week,
                                     !.start_time = start_time, !.end_time = end_time]
                      ELSE s : s \in schedules }
    /\ UNCHANGED <<floors, classes, teachers, subjects, attendances>>

delete_schedule(schedule_id) ==
    /\ Served
    /\ schedule_id \in Ids(schedules)
    /\ schedules' = IF AttendancesOfSchedule(schedule_id) = {}
                    THEN { s \in schedules : s.id # schedule_id }
                    ELSE schedules
    /\ UNCHANGED <<floors, classes, teachers, subjects, attendances>>

AdminStep ==
    \/ \E n \in FloorNumbers : add_floor(n)
    \/ \E id \in FormIds, n \in FloorNumbers : edit_floor(id, n)
    \/ \E id \in FormIds : delete_floor(id)
    \/ \E n \in FormClassNames, f \in FormIds : add_class(n, f)
    \/ \E id \in FormIds, n \in FormClassNames, f \in FormIds : edit_class(id, n, f)
    \/ \E id \in FormIds : delete_class(id)
    \/ \E n \in FormTeacherNames : add_teacher(n)
    \/ \E id \in FormIds, n \in FormTeacherNames : edit_teacher(id, n)
    \/ \E id \in FormIds : delete_teacher(id)
    \/ \E n \in SubjectNames : add_subject(n)
    \/ \E id \in FormIds, n \in SubjectNames : edit_subject(id, n)
    \/ \E id \in FormIds : delete_subject(id)
    \/ \E c \in FormIds, t \in FormIds, x \in FormIds, d \in FormDays, tm \in FormTimes :
          add_schedule(c, t, x, d, tm[1], tm[2])
    \/ \E id \in FormIds, t \in FormIds, x \in FormIds, d \in FormDays, tm \in FormTimes :
          edit_schedule(id, t, x, d, tm[1], tm[2])
    \/ \E id \in FormIds : delete_schedule(id)

NextAdmin == AdminStep

\* The web application on a fresh database, no document at hand.
InitAdmin == Init /\ doc = <<>>

SpecAdmin == InitAdmin /\ [][NextAdmin]_vars

(***************************************************************************)
(* import_complete_schedules.py, the extractor.  A page holds a list of    *)
(* tables and its text, a table is a list of rows, a row a list of cells,  *)
(* a cell None or its text.  Column indexes count from 0 as in the code.   *)
(***************************************************************************)
\* `not x` for a cell or a text.
Falsy(x) == x = None \/ x = ""

Least(S) == CHOOSE x \in S : \A y \in S : x <= y

Greatest(S) == CHOOSE x \in S : \A y \in S : y <= x

\* k in s
Contains(s, k) ==
    \E i \in 1..(Len(s) - Len(k) + 1) : SubSeq(s, i, i + Len(k) - 1) = k

\* s.startswith(k)
StartsWith(s, k) == Len(k) <= Len(s) /\ SubSeq(s, 1, Len(k)) = k

Whitespace == {" ", "\n", "\t"}

\* s.strip()
Strip(s) ==
    LET keep == { i \in 1..Len(s) : SubSeq(s, i, i) \notin Whitespace }
    IN  IF keep = {} THEN "" ELSE SubSeq(s, Least(keep), Greatest(keep))

UpperCase == "ABCDEFGHIJKLMNOPQRSTUVWXYZ"

LowerCase == "abcdefghijklmnopqrstuvwxyz"

\* The lower-case letter of every upper-case one.
ToLower ==
    [ch \in { SubSeq(UpperCase, i, i) : i \in 1..Len(UpperCase) } |->
        LET i == CHOOSE i \in 1..Len(UpperCase) : SubSeq(UpperCase, i, i) = ch
        IN  SubSeq(LowerCase, i, i)]

LowerChar(ch) == IF ch \in DOMAIN ToLower THEN ToLower[ch] ELSE ch

RECURSIVE Lower(_)
\* s.lower()
Lower(s) ==
    IF s = "" THEN "" ELSE LowerChar(SubSeq(s, 1, 1)) \o Lower(SubSeq(s, 2, Len(s)))

RECURSIVE Split(_)
\* s.split('\n')
Split(s) ==
    LET at == { i \in 1..Len(s) : SubSeq(s, i, i) = "\n" }
    IN  IF at = {} THEN <<s>>
        ELSE <<SubSeq(s, 1, Least(at) - 1)>> \o Split(SubSeq(s, Least(at) + 1, Len(s)))

RECURSIVE Join(_, _)
\* sep.join(lines)
Join(lines, sep) ==
    IF lines = <<>> THEN ""
    ELSE IF Len(lines) = 1 THEN lines[1]
    ELSE lines[1] \o sep \o Join(Tail(lines), sep)

RECURSIVE StrippedLines(_)
\* [line.strip() for line in lines if line.strip()]
StrippedLines(lines) ==
    IF lines = <<>> THEN <<>>
    ELSE (IF Strip(lines[1]) = "" THEN <<>> ELSE <<Strip(lines[1])>>)
             \o StrippedLines(Tail(lines))

\* DAY_MAPPING in the order the dict is iterated.
DAY_MAPPING ==
    << <<"sunday", 6>>, <<"monday", 0>>, <<"tuesday", 1>>, <<"wednesday", 2>>,
       <<"thursday", 3>>, <<"friday", 4>>, <<"saturday", 5>> >>

\* The value of the first day key the lower-cased text holds, NoDay for none.
DayOf(text) ==
    LET low == Lower(text)
        hits == { i \in 1..Len(DAY_MAPPING) : Contains(low, DAY_MAPPING[i][1]) }
    IN  IF hits = {} THEN NoDay ELSE DAY_MAPPING[Least(hits)][2]

RECURSIVE CellsOf(_, _)
\* The cells of the first n rows of the table, row by row.
CellsOf(table, n) ==
    IF n = 0 THEN <<>> ELSE CellsOf(table, n - 1) \o table[n]

\* The day of the first cell in the first three rows that names a day.
TableDay(table) ==
    LET cells == CellsOf(table, IF Len(table) < 3 THEN Len(table) ELSE 3)
        hits == { i \in 1..Len(cells) : ~Falsy(cells[i]) /\ DayOf(cells[i]) # NoDay }
    IN  IF hits = {} THEN NoDay ELSE DayOf(cells[Least(hits)])

\* The day of the page: from the table, else from the page text.
PageDay(table, text) ==
    IF TableDay(table) # NoDay THEN TableDay(table)
    ELSE IF Falsy(text) THEN NoDay
    ELSE DayOf(text)

\* The list ['1', ..., '10'] both loops over periods run through.
PeriodNums == <<"1", "2", "3", "4", "5", "6", "7", "8", "9", "10">>

\* The first period a header cell matches, 0 for none.
CellPeriod(cell_str) ==
    LET low == Lower(cell_str)
        bare == Strip(cell_str)
        hits == { p \in 1..Len(PeriodNums) :
                    \/ Contains(cell_str, "\n" \o PeriodNums[p] \o "\n")
                    \/ bare = PeriodNums[p]
                    \/ StartsWith(cell_str, PeriodNums[p] \o "\n")
                    \/ Contains(low, "period " \o PeriodNums[p]) }
    IN  IF hits = {} THEN 0 ELSE Least(hits)

\* temp_period_cols of a row: column index -> period.
TempPeriodCols(row) ==
    LET cols == { c \in 0..(Len(row) - 1) :
                    ~Falsy(row[c + 1]) /\ CellPeriod(row[c + 1]) # 0 }
    IN  [c \in cols |-> CellPeriod(row[c + 1])]

\* period_row_idx: the first of the first five rows with three period cells,
\* -1 for none.
PeriodRow(table) ==
    LET top == IF Len(table) < 5 THEN Len(table) ELSE 5
        found == { r \in 0..(top - 1) :
                     /\ table[r + 1] # <<>>
                     /\ Cardinality(DOMAIN TempPeriodCols(table[r + 1])) >= 3 }
    IN  IF found = {} THEN -1 ELSE Least(found)

\* The first column period_columns maps to the period, -1 for none.
ColumnOf(period_columns, p) ==
    LET cols == { c \in DOMAIN period_columns : period_columns[c] = p }
    IN  IF cols = {} THEN -1 ELSE Least(cols)

NoPair == <<None, None>>

skip_keywords ==
    {"assembly", "breakfast", "break", "ylbmessa", "tsafkaerb", "kaerb",
     "lunch", "recess", "snack", "prayer"}

\* (subject, teacher) of a cell text, (None, None) for an empty or break cell.
extract_subject_and_teacher(cell_text) ==
    IF Falsy(cell_text) \/ Strip(cell_text) = "" THEN NoPair
    ELSE LET text == Strip(cell_text)
             low == Lower(text)
             lines == StrippedLines(Split(text))
         IN  IF \E kw \in skip_keywords : Contains(low, kw) THEN NoPair
             ELSE IF Len(text) < 2 THEN NoPair
             ELSE IF lines = <<>> THEN NoPair
             ELSE LET subject == Strip(lines[1])
                      teacher == Strip(IF Len(lines) > 1 THEN Join(Tail(lines), " ")
                                       ELSE "Unknown Teacher")
                  IN  IF Len(subject) < 2 THEN NoPair ELSE <<subject, teacher>>

\* The entry a class row appends for one period, academic if the period has a
\* column inside the row whose cell yields a subject and a teacher.
PeriodEntryMappedOnly(row, period_columns, class_name, day_num, p) ==
    LET col_idx == ColumnOf(period_columns, p)
        cell == IF col_idx # -1 /\ col_idx < Len(row) THEN row[col_idx + 1] ELSE None
        pair == IF Falsy(cell) THEN NoPair ELSE extract_subject_and_teacher(cell)
        is_free == Falsy(pair[1]) \/ Falsy(pair[2])
    IN  IF col_idx = -1 THEN <<>>
        ELSE IF is_free
             THEN <<Entry(class_name, NoTeacherName, FreeSubjectName, day_num, p, TRUE)>>
             ELSE <<Entry(class_name, pair[2], pair[1], day_num, p, FALSE)>>

PeriodEntry(row, period_columns, class_name, day_num, p) ==
    LET col_idx == ColumnOf(period_columns, p)
        cell == IF col_idx # -1 /\ col_idx < Len(row) THEN row[col_idx + 1] ELSE None
        pair == IF Falsy(cell) THEN NoPair ELSE extract_subject_and_teacher(cell)
        is_free == Falsy(pair[1]) \/ Falsy(pair[2])
    IN  IF is_free
        THEN <<Entry(class_name, NoTeacherName, FreeSubjectName, day_num, p, TRUE)>>
        ELSE <<Entry(class_name, pair[2], pair[1], day_num, p, FALSE)>>

RECURSIVE PeriodEntries(_, _, _, _, _)
\* The loop over ['1', ..., '10'] for one class row, up to period p.
PeriodEntries(row, period_columns, class_name, day_num, p) ==
    IF p = 0 THEN <<>>
    ELSE PeriodEntries(row, period_columns, class_name, day_num, p - 1)
             \o PeriodEntry(row, period_columns, class_name, day_num, p)

\* What one table row appends to all_schedules.
RowEntries(row, period_columns, day_num) ==
    IF row = <<>> \/ Falsy(row[1]) THEN <<>>
    ELSE IF Len(Strip(row[1])) < 2 THEN <<>>
    ELSE PeriodEntries(row, period_columns, Strip(row[1]), day_num, Len(PeriodNums))

(***************************************************************************)
(* The pages, tables and rows the extractor is fed.                        *)
(***************************************************************************)
HeaderCells == {None, "1", "2\n09:05", "3", "Period 10"}

HeaderRows == { <<"Class">> \o q : q \in SeqsUpTo(HeaderCells, MaxCols) }

TitleRows == { <<None>>, <<"MONDAY">> }

\* The rows of a table down to its period-header row.
Tables == { <<h>> : h \in HeaderRows } \cup { <<t, h>> : t \in TitleRows, h \in HeaderRows }

PageTexts == {None, "Monday Timetable"}

ClassCells == {None, "1A", "X"}

DataCells == {None, "Math\nMr A", "Break"}

DataRows ==
    { <<>> } \cup { <<c>> \o q : c \in ClassCells, q \in SeqsUpTo(DataCells, MaxCols) }

\* The extractor touches neither the database nor an import run.
Extracting == UNCHANGED <<floors, classes, teachers, subjects, schedules, doc, run,
                          txDeleted, hist, budget, batch>>

Skipped(why) == [ClosedPdf EXCEPT !.phase = why]

\* The extractor is in front of a page.
PageDue == pdf.phase \in {"closed", "no_tables", "no_day", "no_periods"}

\* The extractor is in front of a table row, and the page has one more.
RowDue == pdf.phase = "table" /\ pdf.row_idx - pdf.period_row_idx <= MaxDataRows

\* The head of the loop over pdf.pages: the table, the day, the period columns.
NextPage(tables, text) ==
    /\ PageDue
    /\ pdf' = IF tables = <<>> THEN Skipped("no_tables")
              ELSE LET table == tables[1]
                       day_num == PageDay(table, text)
                       period_row_idx == PeriodRow(table)
                   IN  IF day_num = NoDay THEN Skipped("no_day")
                       ELSE IF period_row_idx = -1 THEN Skipped("no_periods")
                       ELSE [phase |-> "table", day_num |-> day_num,
                             period_columns |-> TempPeriodCols(table[period_row_idx + 1]),
                             period_row_idx |-> period_row_idx,
                             row_idx |-> period_row_idx + 1,
                             row |-> <<>>, emitted |-> <<>>]
    /\ Extracting

\* The body of the loop over the rows below the period-header row.
ProcessRow(row) ==
    /\ RowDue
    /\ pdf' = [pdf EXCEPT !.phase = "row", !.row = row,
                          !.emitted = RowEntries(row, pdf.period_columns, pdf.day_num)]
    /\ Extracting

\* The loop moves to the next row; all_schedules keeps what the row appended,
\* the model lets go of it.
NextRow ==
    /\ pdf.phase = "row"
    /\ pdf' = [pdf EXCEPT !.phase = "table", !.row_idx = pdf.row_idx + 1,
                          !.row = <<>>, !.emitted = <<>>]
    /\ Extracting

\* The table has no further row.
EndPage ==
    /\ pdf.phase = "table"
    /\ pdf' = ClosedPdf
    /\ Extracting

ExtractStep ==
    \/ /\ PageDue
       /\ \E tables \in { <<>> } \cup { <<t>> : t \in Tables }, text \in PageTexts :
             NextPage(tables, text)
    \/ /\ RowDue
       /\ \E row \in DataRows : ProcessRow(row)
    \/ NextRow
    \/ EndPage

NextExtract == ExtractStep /\ NoAttendance

\* The extractor alone, in front of its first page.
InitExtract == Init /\ doc = <<>>

SpecExtract == InitExtract /\ [][NextExtract]_vars


(***************************************************************************)
(* Properties of the import engine.                                        *)
(***************************************************************************)
\* An entry sequence as the extractors emit it: no field is missing.
DocValid == \A i \in 1..Len(doc) : AllPresent(doc[i])

\* The counter a variant moves for a duplicate and for an invalid entry.
DupCounter(r) ==
    IF r.variant = "sparse" THEN r.stats.skipped_duplicate ELSE r.stats.skipped

InvalidCounter(r) ==
    IF r.variant = "sparse" THEN r.stats.skipped_invalid ELSE r.stats.skipped

EntryKey(e) == <<e.class_name, e.day, e.start_time, e.end_time>>

DistinctKeys ==
    \A i, j \in 1..Len(doc) : i # j => EntryKey(doc[i]) # EntryKey(doc[j])

ValidIndexes == { i \in 1..Len(doc) : AllPresent(doc[i]) }

\* A Schedule row of the run's floor is persisted for entry e.
Persisted(e) ==
    \E c \in classes, s \in schedules :
        /\ c.name = e.class_name /\ c.floor_id = run.floor_id
        /\ s.class_id = c.id /\ s.day_of_week = e.day
        /\ s.start_time = e.start_time /\ s.end_time = e.end_time

\* The step processes one entry of the loop.
EntryStep == run.phase = "loop" /\ run'.idx = run.idx + 1

\* C1: a run with clear-existing=false that directly follows a completed run of
\* the same well-formed entry sequence on the same floor (no store failure in
\* either) changes no Schedule row, reports imported = 0 and counts every entry
\* as a duplicate.
C1_Idempotent ==
    (run.phase = "done" /\ hist.repeat /\ run.clean /\ ~run.clear /\ DocValid)
        => /\ ~hist.changed
           /\ run.stats.imported = 0
           /\ DupCounter(run) = Len(doc)

C1_Witness ==
    /\ run.phase = "done" /\ hist.repeat /\ run.clean /\ ~run.clear /\ DocValid
    /\ run.variant \in {"sparse", "smart"}
    /\ Len(doc) = MaxEntries
    /\ Cardinality(schedules) >= 2

\* C3 (as claimed): a batch with pairwise-distinct natural keys imported into an
\* empty floor, k entries of it malformed, ends with imported = number of valid
\* entries, skipped_invalid = k and a row persisted for every valid entry.
C3_PartialFailure ==
    (/\ run.phase = "done" /\ budget.runs = 1 /\ budget.faults = 0
     /\ run.variant \in {"sparse", "complete", "from_pdf"}
     /\ DistinctKeys)
        => /\ run.stats.imported = Cardinality(ValidIndexes)
           /\ InvalidCounter(run) = Len(doc) - Cardinality(ValidIndexes)
           /\ \A i \in ValidIndexes : Persisted(doc[i])

\* C4 (as claimed): at the end of a sparse or complete run every entry is
\* reflected in exactly one outcome counter.
C4_CounterConservation ==
    (run.phase = "done" /\ run.variant \in {"sparse", "complete"})
        => run.stats.total =
              run.stats.imported + run.stats.skipped_duplicate
                + run.stats.skipped_invalid + run.stats.errors + run.stats.skipped

\* C5 (as claimed): when a persistence call fails while an entry is imported,
\* none of the entry's writes stays persisted, errors grows by one and the loop
\* goes on to the next entry.
C5_EntryRollback ==
    [][(EntryStep /\ run.variant = "sparse" /\ hist'.last = "error")
          => /\ store' = store
             /\ run'.stats.errors = run.stats.errors + 1
             /\ run'.phase = IF run.idx = Len(doc) THEN "done" ELSE "loop"]_vars

\* C6 (as claimed): processing an entry whose natural key is already persisted
\* leaves the whole store unchanged and moves only the duplicate counter.
C6_DuplicateNoOp ==
    [][(EntryStep /\ hist'.last = "duplicate")
          => /\ store' = store
             /\ DupCounter(run') = DupCounter(run) + 1
             /\ run'.stats.imported = run.stats.imported
             /\ run'.stats.errors = run.stats.errors]_vars

NewNames(before, after) == { r.name : r \in after \ before }

\* C6 (amended): a duplicate entry changes no Floor, Class or Schedule row and
\* no existing Teacher or Subject row, and moves only the duplicate counter;
\* the one thing it may add is a Teacher or Subject row for a name of the entry
\* that had no row yet.
C6_DuplicateAddsOnlyNames ==
    [][(EntryStep /\ hist'.last = "duplicate")
          => /\ floors' = floors /\ classes' = classes /\ schedules' = schedules
             /\ teachers \subseteq teachers' /\ subjects \subseteq subjects'
             /\ Cardinality(teachers' \ teachers) <= 1
             /\ Cardinality(subjects' \ subjects) <= 1
             /\ NewNames(teachers, teachers') \subseteq
                    {doc[run.idx].teacher} \ { t.name : t \in teachers }
             /\ NewNames(subjects, subjects') \subseteq
                    {doc[run.idx].subject} \ { x.name : x \in subjects }
             /\ DupCounter(run') = DupCounter(run) + 1
             /\ run'.stats.imported = run.stats.imported
             /\ run'.stats.errors = run.stats.errors
             /\ run'.stats.skipped_invalid = run.stats.skipped_invalid]_vars

C6_Witness == hist.last = "duplicate" /\ hist.made.teacher

\* C7: a step of a run with clear-existing=false keeps every Schedule row, with
\* the same class, day, start, end, teacher and subject.
C7_Additive ==
    [][(~run'.clear) => schedules \subseteq schedules']_vars

\* The entry just skipped names another teacher than the persisted row of its slot.
C7_Witness ==
    /\ hist.last = "duplicate" /\ ~run.clear /\ run.idx > 1
    /\ \E c \in classes, s \in schedules, t \in teachers :
          /\ c.name = doc[run.idx - 1].class_name /\ s.class_id = c.id
          /\ s.day_of_week = doc[run.idx - 1].day
          /\ s.start_time = doc[run.idx - 1].start_time
          /\ t.id = s.teacher_id /\ t.name # doc[run.idx - 1].teacher

\* C10: during and after a clear step, failed or committed, the store holds all
\* of the floor's old Schedule rows or none of them.
C10_ClearAtomic ==
    (run.clear /\ (run.phase \in {"clear", "aborted"} \/ run.idx = 1))
        => LET now == SchedulesOfFloor(schedules, classes, run.floor_id)
           IN now = hist.old \/ now = {}

\* The clear step failed after the rows of one class were deleted and before
\* those of another class were.
C10_Witness ==
    /\ run.clear /\ run.phase = "aborted"
    /\ \E a, b \in Ids(ClassesOfFloor(classes, run.floor_id)) :
          /\ a \notin run.todo /\ b \in run.todo
          /\ \E s \in hist.old : s.class_id = a
          /\ \E s \in hist.old : s.class_id = b

(***************************************************************************)
(* Properties of the admin handlers.                                       *)
(***************************************************************************)
\* C2 (as claimed): no two persisted Schedule rows share the natural key
\* (class_id, day_of_week, start_time, end_time).
C2_NaturalKeyUnique ==
    \A a, b \in schedules : NaturalKey(a) = NaturalKey(b) => a = b

\* Every Schedule's teacher_id and subject_id is the id of a persisted row.
ReferencesExist ==
    \A s \in schedules : s.teacher_id \in Ids(teachers) /\ s.subject_id \in Ids(subjects)

\* No step removes a Teacher or Subject that a Schedule refers to, nor changes
\* a Schedule row on the way.
GuardedStep ==
    /\ \A t \in teachers :
          (SchedulesOfTeacher(t.id) # {} /\ t.id \notin Ids(teachers'))
              => SchedulesOfTeacher(t.id) \cap schedules' = {}
    /\ \A x \in subjects :
          (SchedulesOfSubject(x.id) # {} /\ x.id \notin Ids(subjects'))
              => SchedulesOfSubject(x.id) \cap schedules' = {}

\* C9 (as claimed): a referenced Teacher or Subject is never deleted, and so
\* every Schedule's teacher_id and subject_id refer to existing rows after any
\* sequence of admin operations.
C9_DeleteGuard == [][GuardedStep]_vars /\ []ReferencesExist

\* The delete guard alone.
DeleteGuardHolds == [][GuardedStep]_vars

(***************************************************************************)
(* Properties of the complete-mode extractor.                              *)
(***************************************************************************)
\* The row at hand passed the class-row filter.
Accepted(row) == row # <<>> /\ ~Falsy(row[1]) /\ Len(Strip(row[1])) >= 2

\* Two columns of the header map to the same period.
RepeatedPeriod ==
    \E a, b \in DOMAIN pdf.period_columns :
        a # b /\ pdf.period_columns[a] = pdf.period_columns[b]

\* The row at hand ends before the last period column.
ShortRow == Len(pdf.row) <= Greatest(DOMAIN pdf.period_columns)

\* C8: every accepted class row of a parsed page emits exactly 10 entries, the
\* i-th for period i, each academic or an is_free placeholder with subject
\* 'Free Period' and teacher 'No Teacher'; a rejected row emits nothing.
C8_TenEntriesPerRow ==
    pdf.phase = "row" =>
        IF Accepted(pdf.row)
        THEN /\ Len(pdf.emitted) = 10
             /\ \A i \in 1..10 :
                   LET e == pdf.emitted[i]
                   IN  /\ e.period = i
                       /\ e.start_time = TIME_PERIODS[i][1]
                       /\ e.end_time = TIME_PERIODS[i][2]
                       /\ e.class_name = Strip(pdf.row[1])
                       /\ e.day = pdf.day_num
                       /\ e.is_free => (e.subject = "Free Period" /\ e.teacher = "No Teacher")
                       /\ ~e.is_free => (~Falsy(e.subject) /\ ~Falsy(e.teacher))
        ELSE pdf.emitted = <<>>

\* C8 witness: a header of fewer than 10 columns, two of them for one period,
\* and a row that ends before the last of them, emits ten entries of which one
\* is academic and one a placeholder.
C8_Witness ==
    /\ pdf.phase = "row"
    /\ Accepted(pdf.row)
    /\ RepeatedPeriod
    /\ ShortRow
    /\ Len(pdf.emitted) = 10
    /\ \E i, j \in 1..10 : pdf.emitted[i].is_free /\ ~pdf.emitted[j].is_free

(***************************************************************************)
(* Properties of a failed clear step and of the get-or-create lookups.     *)
(***************************************************************************)
\* The clear step of the run raises in this step.
ClearFails == run.phase = "clear" /\ budget'.faults > budget.faults

\* C11: when the clear step of a complete import fails, the run is over for
\* that floor: no entry of it is processed and no Schedule row is inserted, the
\* floor keeps exactly its old rows.
C11_ClearFailureFatal ==
    /\ [][ClearFails => (run'.phase = "aborted" /\ schedules' = schedules)]_vars
    /\ [](run.phase = "aborted" =>
            /\ run.idx = 1
            /\ run.stats.imported = 0
            /\ SchedulesOfFloor(schedules, classes, run.floor_id) = hist.old)

\* C11 witness: the clear step failed on a floor that had rows, with entries
\* waiting to be imported.
C11_Witness ==
    /\ run.clear /\ run.phase = "aborted"
    /\ hist.old # {}
    /\ \E i \in 1..Len(doc) : AllPresent(doc[i])

(***************************************************************************)
(* main() of import_complete_schedules.py and import_remaining_floors.py:  *)
(* one floor of floors_to_import after the other is extracted and, when    *)
(* the extraction returned entries, imported.                              *)
(***************************************************************************)
\* The floor numbers of floors_to_import, in the order of the list.
floors_to_import == <<1, 2>>

MainVariants == {"sparse", "complete"}

\* How an extraction can end: the PDF is not there, an exception part-way, or
\* the last page is reached.
Outcomes == {"missing", "failed", "ok"}

MainPool == { Entry("1A", "T1", "Math", 0, 1, FALSE) }

\* What all_schedules can hold when the extraction ends.
MainDocuments == SeqsUpTo(MainPool, MaxEntries)

\* ExtractResult with the exception handler returning what was extracted so far.
ExtractKeepsPartial(outcome, all_schedules) == all_schedules

\* What extract_schedules_from_pdf returns: all_schedules, [] from its
\* exception handlers.
ExtractResult(outcome, all_schedules) ==
    IF outcome = "ok" THEN all_schedules ELSE <<>>

\* A database an earlier import of both floors has filled.
SeededStore ==
    [floors |-> { [id |-> 1, number |-> 1], [id |-> 2, number |-> 2] },
     classes |-> { [id |-> 1, name |-> "1A", floor_id |-> 1],
                   [id |-> 2, name |-> "1A", floor_id |-> 2] },
     teachers |-> { [id |-> 1, name |-> "T1"] },
     subjects |-> { [id |-> 1, name |-> "Math"] },
     schedules |-> { [id |-> c, class_id |-> c, teacher_id |-> 1, subject_id |-> 1,
                      day_of_week |-> 0, start_time |-> TIME_PERIODS[2][1],
                      end_time |-> TIME_PERIODS[2][2]] : c \in {1, 2} }]

EmptyStore ==
    [floors |-> {}, classes |-> {}, teachers |-> {}, subjects |-> {}, schedules |-> {}]

InitMain ==
    /\ \E st \in {EmptyStore, SeededStore} :
          /\ floors = st.floors /\ classes = st.classes /\ teachers = st.teachers
          /\ subjects = st.subjects /\ schedules = st.schedules
    /\ doc = <<>>
    /\ run = IdleRun
    /\ txDeleted = {}
    /\ hist = IdleHist
    /\ budget = [runs |-> 0, faults |-> 0]
    /\ pdf = ClosedPdf
    /\ batch = IdleBatch
    /\ attendances = {}
    /\ today = 1
    /\ request = NoRequest

\* The place in the list after the floor at hand.
NextFloor(b) ==
    [b EXCEPT !.pos = @ + 1,
              !.phase = IF b.pos = Len(floors_to_import) THEN "finished" ELSE "extract"]

\* main() is started.
MainStart(variant) ==
    /\ batch.phase \in {"idle", "finished"}
    /\ RunOver
    /\ budget.runs + Len(floors_to_import) <= MaxRuns
    /\ batch' = [phase |-> "extract", variant |-> variant, pos |-> 1, outcomes |-> <<>>]
    /\ UNCHANGED <<floors, classes, teachers, subjects, schedules, doc, run, txDeleted,
                   hist, budget, pdf>>

\* schedules = extract_schedules_from_pdf(pdf_file, floor_num); an empty result
\* is reported and the loop goes on with the next floor.
MainExtract(outcome, all_schedules) ==
    /\ batch.phase = "extract"
    /\ outcome = "missing" => all_schedules = <<>>
    /\ LET got == ExtractResult(outcome, all_schedules)
       IN /\ doc' = got
          /\ batch' = IF got = <<>>
                      THEN [NextFloor(batch) EXCEPT !.outcomes = Append(@, outcome)]
                      ELSE [batch EXCEPT !.phase = "extracted",
                                         !.outcomes = Append(@, outcome)]
    /\ UNCHANGED <<floors, classes, teachers, subjects, schedules, run, txDeleted, hist,
                   budget, pdf>>

\* import_to_database(schedules, floor_num), with clear_existing=True in the
\* complete variant.
MainImport ==
    /\ batch.phase = "extracted"
    /\ StartRun(batch.variant, floors_to_import[batch.pos], batch.variant = "complete")
    /\ batch' = [batch EXCEPT !.phase = "import"]

\* import_to_database returned, or raised into the except of main().
MainNext ==
    /\ batch.phase = "import"
    /\ RunOver
    /\ batch' = NextFloor(batch)
    /\ UNCHANGED <<floors, classes, teachers, subjects, schedules, doc, run, txDeleted,
                   hist, budget, pdf>>

\* The steps of an import run that main() started.
RunStep ==
    \/ \E cid \in Ids(classes) : ClearDelete(cid)
    \/ ClearCommit
    \/ ClearFail
    \/ \E f \in Faults : ProcessEntry(f)

MainStep ==
    \/ \E v \in MainVariants : MainStart(v)
    \/ /\ batch.phase = "extract"
       /\ \E o \in Outcomes, d \in MainDocuments : MainExtract(o, d)
    \/ MainImport
    \/ MainNext
    \/ RunStep

NextMain == MainStep /\ NoAttendance

SpecMain == InitMain /\ [][NextMain]_vars

\* main() runs to its end: a step that can be taken is taken.
SpecMainFair == SpecMain /\ WF_vars(NextMain)

(***************************************************************************)
(* Properties of main().                                                   *)
(***************************************************************************)
\* The extraction of the floor at hand ends in this step, for want of the
\* document or by an exception part-way.
FailedExtraction ==
    /\ batch.phase = "extract"
    /\ Len(batch'.outcomes) = Len(batch.outcomes) + 1
    /\ batch'.outcomes[Len(batch'.outcomes)] \in {"missing", "failed"}

\* The Class and Schedule rows of every floor but the one at hand stay.
OtherFloorsKept ==
    \A f \in floors :
        f.number # floors_to_import[batch.pos] =>
            /\ ClassesOfFloor(classes', f.id) = ClassesOfFloor(classes, f.id)
            /\ SchedulesOfFloor(schedules', classes', f.id)
                   = SchedulesOfFloor(schedules, classes, f.id)

\* C12: a floor whose document is missing or whose extraction fails part-way
\* imports nothing and keeps its rows, the rows of the other floors stay while a
\* floor is processed, and main() goes on floor by floor to the end of its list.
C12_FloorFailureIsolated ==
    /\ [][FailedExtraction =>
            /\ store' = store
            /\ run' = run
            /\ batch'.phase = NextFloor(batch).phase
            /\ batch'.pos = batch.pos + 1]_vars
    /\ [][batch.phase \in {"extract", "extracted", "import"} =>
            /\ OtherFloorsKept
            /\ batch'.pos \in {batch.pos, batch.pos + 1}]_vars
    /\ (batch.phase = "extract" ~> batch.phase = "finished")

\* C12 witness: in a clear-existing run over a filled database the extraction
\* of the first floor failed part-way, its rows are there, and the second floor
\* was imported all the same.
C12_Witness ==
    /\ batch.phase = "finished" /\ batch.variant = "complete"
    /\ batch.outcomes = <<"failed", "ok">>
    /\ SchedulesOfFloor(schedules, classes, 1) = SchedulesOfFloor(SeededStore.schedules, SeededStore.classes, 1)
    /\ SchedulesOfFloor(schedules, classes, 1) # {}
    /\ run.floor_number = 2 /\ run.stats.imported > 0

(***************************************************************************)
(* Properties of the rows.                                                 *)
(***************************************************************************)
\* C13 (as claimed): no two Class rows have the same (name, floor_id).
C13_ClassUnique ==
    \A a, b \in classes : (a.name = b.name /\ a.floor_id = b.floor_id) => a = b

\* One row at most for a floor number, for a class name on a floor, for a
\* teacher name and for a subject name.
OneRowEach ==
    /\ \A a, b \in floors : a.number = b.number => a = b
    /\ \A a, b \in classes : (a.name = b.name /\ a.floor_id = b.floor_id) => a = b
    /\ \A a, b \in teachers : a.name = b.name => a = b
    /\ \A a, b \in subjects : a.name = b.name => a = b

\* The rows a lookup can return stay as they are: the same name resolves to the
\* same id in every later lookup.
EntitiesStay ==
    /\ floors \subseteq floors' /\ classes \subseteq classes'
    /\ teachers \subseteq teachers' /\ subjects \subseteq subjects'

\* No Floor, Class, Teacher or Subject row is created.
NoEntityCreated ==
    /\ floors' = floors /\ classes' = classes
    /\ teachers' = teachers /\ subjects' = subjects

\* C14: get-or-create keeps one row per floor number, (class name, floor),
\* teacher name and subject name and resolves a name to the same row every
\* time; an import that repeats a completed failure-free import of the same
\* entries on the same floor creates no Floor, Class, Teacher or Subject row.
C14_GetOrCreateIdempotent ==
    /\ []OneRowEach
    /\ [][EntitiesStay]_vars
    /\ [][(hist'.same /\ run'.clean) => NoEntityCreated]_vars

\* C14 witness: a repeated import resolved a class, a teacher and a subject that
\* the import before it created.
C14_Witness ==
    /\ run.phase = "done" /\ hist.same /\ run.clean
    /\ Len(doc) = MaxEntries /\ DocValid
    /\ classes # {} /\ Cardinality(teachers) >= 2 /\ subjects # {}

\* C15 (as claimed): every persisted Schedule has start_time < end_time.
C15_TimeOrdered == \A s \in schedules : s.start_time < s.end_time

\* C16 (as claimed): every persisted Schedule has day_of_week in 0..6.
C16_DayInRange == \A s \in schedules : s.day_of_week \in 0..6

(***************************************************************************)
(* extract_subject_and_teacher of the three table importers                *)
(***************************************************************************)

MaxLines == 2

ClassifierVariants == {"smart", "sparse", "complete"}

\* skip_keywords of import_schedule_smart.py
skip_keywords_smart ==
    {"ylbmessa", "tsafkaerb", "kaerb", "assembly", "breakfast", "break"}

\* skip_keywords of import_remaining_floors.py
skip_keywords_remaining ==
    {"assembly", "breakfast", "break", "ylbmessa", "tsafkaerb", "kaerb",
     "lunch", "recess"}

\* extract_subject_and_teacher of import_schedule_smart.py
extract_subject_and_teacher_smart(cell_text) ==
    IF Falsy(cell_text) \/ Strip(cell_text) = "" THEN NoPair
    ELSE LET text == Strip(cell_text)
             low == Lower(text)
             lines == StrippedLines(Split(text))
         IN  IF \E kw \in skip_keywords_smart : Contains(low, kw) THEN NoPair
             ELSE IF lines = <<>> THEN NoPair
             ELSE <<lines[1],
                    IF Len(lines) > 1 THEN Join(Tail(lines), " ") ELSE "Unknown">>

\* extract_subject_and_teacher of import_remaining_floors.py
extract_subject_and_teacher_remaining(cell_text) ==
    IF Falsy(cell_text) \/ Strip(cell_text) = "" THEN NoPair
    ELSE LET text == Strip(cell_text)
             low == Lower(text)
             lines == StrippedLines(Split(text))
         IN  IF \E kw \in skip_keywords_remaining : Contains(low, kw) THEN NoPair
             ELSE IF Len(text) < 2 THEN NoPair
             ELSE IF lines = <<>> THEN NoPair
             ELSE LET subject == Strip(lines[1])
                      teacher == Strip(IF Len(lines) > 1 THEN Join(Tail(lines), " ")
                                       ELSE "Unknown Teacher")
                  IN  IF Len(subject) < 2 THEN NoPair ELSE <<subject, teacher>>

\* The classifier each importer calls on a cell.
ClassifierOf(variant, cell_text) ==
    CASE variant = "smart" -> extract_subject_and_teacher_smart(cell_text)
      [] variant = "sparse" -> extract_subject_and_teacher_remaining(cell_text)
      [] variant = "complete" -> extract_subject_and_teacher(cell_text)

\* Lines a timetable cell is made of.
CellLines == {"Art", "Math", "Mr Ali", "Break", "Lunch", "A", " "}

\* str(cell) of the cells handed to the classifier.
CellTexts == { Join(lines, "\n") : lines \in SeqsUpTo(CellLines, MaxLines) }

\* One call of a variant's classifier, its argument and result kept.
Classify(variant, cell_text) ==
    /\ pdf.phase \in {"closed", "cell"}
    /\ pdf' = [phase |-> "cell", variant |-> variant, cell_text |-> cell_text,
               subject |-> ClassifierOf(variant, cell_text)[1],
               teacher |-> ClassifierOf(variant, cell_text)[2]]
    /\ UNCHANGED <<floors, classes, teachers, subjects, schedules, doc, run,
                   txDeleted, hist, budget, batch>>

NextClassify == \E variant \in ClassifierVariants, cell_text \in CellTexts :
                    Classify(variant, cell_text) /\ NoAttendance

InitClassify == Init /\ doc = <<>>

SpecClassify == InitClassify /\ [][NextClassify]_vars

(***************************************************************************)
(* Properties of the classifier                                            *)
(***************************************************************************)

FillerVocabulary ==
    {"assembly", "breakfast", "break", "lunch", "recess", "snack", "prayer"}

\* The pair the specification gives for a cell text.
StatedPair(cell_text) ==
    IF \/ cell_text = ""
       \/ Len(Strip(cell_text)) < 2
       \/ \E kw \in FillerVocabulary : Contains(Lower(cell_text), kw)
    THEN NoPair
    ELSE LET lines == StrippedLines(Split(cell_text))
         IN  <<lines[1],
               IF Len(lines) > 1 THEN Join(Tail(lines), " ") ELSE "Unknown">>

\* C17: in every extraction variant the classifier gives (None, None) for an
\* empty, too short or filler text and otherwise the first non-blank line with
\* the remaining lines joined by a space, the teacher being "Unknown" when no
\* line remains.
C17_ClassifierResult ==
    pdf.phase = "cell" =>
        <<pdf.subject, pdf.teacher>> = StatedPair(pdf.cell_text)

(***************************************************************************)
(* The day of a page in the three table importers                          *)
(***************************************************************************)

MaxDayRows == 2

\* import_schedule_smart.py: the day is read from the second cell of the
\* second row only.
SmartDay(table) ==
    IF Len(table) > 1 /\ table[2] # <<>>
    THEN DayOf(IF Falsy(table[2][2]) THEN "" ELSE table[2][2])
    ELSE NoDay

\* day_num of a page as each importer finds it, NoDay when the page is skipped.
DayOfPage(variant, table, text) ==
    IF variant = "smart" THEN SmartDay(table) ELSE PageDay(table, text)

\* The first rows of a table, two cells wide.
DayRows == { <<None, None>>, <<"Class", "1">>, <<None, "MONDAY">>, <<"Monday", None>> }

DayTables == SeqsUpTo(DayRows, MaxDayRows) \ { <<>> }

DayTexts == {None, "Tuesday Timetable", "Grade 1"}

\* The day step of the loop over pdf.pages, its inputs and result kept.
ResolveDay(variant, table, text) ==
    /\ pdf.phase \in {"closed", "day", "no_day"}
    /\ pdf' = [phase |-> IF DayOfPage(variant, table, text) = NoDay
                         THEN "no_day" ELSE "day",
               variant |-> variant, table |-> table, text |-> text,
               day_num |-> DayOfPage(variant, table, text)]
    /\ UNCHANGED <<floors, classes, teachers, subjects, schedules, doc, run,
                   txDeleted, hist, budget, batch>>

NextDay == \E variant \in ClassifierVariants, table \in DayTables, text \in DayTexts :
               ResolveDay(variant, table, text) /\ NoAttendance

InitDay == Init /\ doc = <<>>

SpecDay == InitDay /\ [][NextDay]_vars

(***************************************************************************)
(* Properties of the day of a page                                         *)
(***************************************************************************)

\* The text holds a day name.
NamesDay(s) == \E i \in 1..Len(DAY_MAPPING) : Contains(Lower(s), DAY_MAPPING[i][1])

\* The cells of the first three rows that hold a day name, as <<row, column>>.
DayCells(table) ==
    { rc \in (1..Len(table)) \X (1..2) :
        /\ rc[1] <= 3
        /\ ~Falsy(table[rc[1]][rc[2]])
        /\ NamesDay(table[rc[1]][rc[2]]) }

\* C18: a page whose header rows name no day and whose text holds "Tuesday" is
\* given day 1 and is not skipped; a day named in a header cell is the day of
\* the page whatever the page text says.
C18_DayFallback ==
    pdf.phase \in {"day", "no_day"} =>
        /\ (/\ DayCells(pdf.table) = {}
            /\ ~Falsy(pdf.text)
            /\ Contains(Lower(pdf.text), "tuesday"))
              => (pdf.phase = "day" /\ pdf.day_num = 1)
        /\ DayCells(pdf.table) # {}
              => /\ pdf.phase = "day"
                 /\ \E rc \in DayCells(pdf.table) :
                        Contains(Lower(pdf.table[rc[1]][rc[2]]),
                                 DAY_MAPPING[CHOOSE i \in 1..Len(DAY_MAPPING) :
                                                 DAY_MAPPING[i][2] = pdf.day_num][1])

(***************************************************************************)
(* Properties of the period-header row                                     *)
(***************************************************************************)

\* The periods the accepted header row maps its columns to.
HeaderPeriods == { pdf.period_columns[c] : c \in DOMAIN pdf.period_columns }

\* C19: the row accepted as the period header among the first five rows of a
\* table matches at least three distinct periods; a row whose matching cells
\* all match one period is not accepted.
C19_ThreeDistinctPeriods ==
    pdf.phase \in {"table", "row"} => Cardinality(HeaderPeriods) >= 3

(***************************************************************************)
(* The period of a header cell                                             *)
(***************************************************************************)

\* The match of import_remaining_floors.py, which also takes '(N)'.
CellPeriodRemaining(cell_str) ==
    LET low == Lower(cell_str)
        bare == Strip(cell_str)
        hits == { p \in 1..Len(PeriodNums) :
                    \/ Contains(cell_str, "\n" \o PeriodNums[p] \o "\n")
                    \/ bare = PeriodNums[p]
                    \/ StartsWith(cell_str, PeriodNums[p] \o "\n")
                    \/ Contains(low, "period " \o PeriodNums[p])
                    \/ Contains(cell_str, "(" \o PeriodNums[p] \o ")") }
    IN  IF hits = {} THEN 0 ELSE Least(hits)

HeaderVariants == {"sparse", "complete"}

\* The period each importer maps a header cell to, 0 for none.
PeriodOfCell(variant, cell_str) ==
    IF variant = "sparse" THEN CellPeriodRemaining(cell_str) ELSE CellPeriod(cell_str)

\* The ways a header cell is written for period n.
HeaderForms(n) ==
    { PeriodNums[n],
      " " \o PeriodNums[n] \o " ",
      PeriodNums[n] \o "\n08:30",
      "Time\n" \o PeriodNums[n] \o "\n08:30",
      "Period " \o PeriodNums[n],
      "period " \o PeriodNums[n] }

\* The loop over period_num for one header cell written for period n; the
\* entries of the cell's column take the interval of the period it is mapped to.
MatchPeriod(variant, n, cell_str) ==
    /\ pdf.phase \in {"closed", "header_cell"}
    /\ LET period_num == PeriodOfCell(variant, cell_str)
       IN  pdf' = [phase |-> "header_cell", variant |-> variant,
                   cell_str |-> cell_str, written_for |-> n,
                   period_num |-> period_num,
                   start_time |-> IF period_num = 0 THEN NoTime
                                  ELSE TIME_PERIODS[period_num][1],
                   end_time |-> IF period_num = 0 THEN NoTime
                                ELSE TIME_PERIODS[period_num][2]]
    /\ UNCHANGED <<floors, classes, teachers, subjects, schedules, doc, run,
                   txDeleted, hist, budget, batch>>

NextPeriod == \E variant \in HeaderVariants, n \in AllPeriods :
                  \E cell_str \in HeaderForms(n) : MatchPeriod(variant, n, cell_str) /\ NoAttendance

InitPeriod == Init /\ doc = <<>>

SpecPeriod == InitPeriod /\ [][NextPeriod]_vars

(***************************************************************************)
(* Properties of the period of a header cell                               *)
(***************************************************************************)

\* C20: a header cell written for period N in any accepted form is mapped to
\* period N, for every N in 1..10, and its entries get the interval of period
\* N: 'Period 10' is mapped to period 10 with 14:15-14:50, not to period 1.
C20_PeriodTokenMapping ==
    pdf.phase = "header_cell" =>
        /\ pdf.period_num = pdf.written_for
        /\ pdf.start_time = TIME_PERIODS[pdf.written_for][1]
        /\ pdf.end_time = TIME_PERIODS[pdf.written_for][2]

(***************************************************************************)
(* Properties of filler cells                                              *)
(***************************************************************************)

\* The text holds a word of the filler vocabulary, in any case.
IsFiller(cell_text) ==
    \E kw \in FillerVocabulary : Contains(Lower(cell_text), kw)

\* C21: in every extraction variant a cell whose text holds assembly,
\* breakfast, break, lunch, recess, snack or prayer, in any case, is classified
\* as filler: the classifier gives it no subject and no teacher.
C21_FillerVocabulary ==
    (pdf.phase = "cell" /\ IsFiller(pdf.cell_text)) =>
        <<pdf.subject, pdf.teacher>> = NoPair

(***************************************************************************)
(* A document read page by page and then imported: extract_schedules_from_ *)
(* pdf of each table importer appends the entries of every page to         *)
(* all_schedules, here doc, and main() hands a non-empty result to         *)
(* import_to_database.                                                     *)
(***************************************************************************)

MaxPages == 2

\* temp_period_cols of a row in import_remaining_floors.py.
TempPeriodColsRemaining(row) ==
    LET cols == { c \in 0..(Len(row) - 1) :
                    ~Falsy(row[c + 1]) /\ CellPeriodRemaining(row[c + 1]) # 0 }
    IN  [c \in cols |-> CellPeriodRemaining(row[c + 1])]

\* period_row_idx in import_remaining_floors.py, -1 for none.
PeriodRowRemaining(table) ==
    LET top == IF Len(table) < 5 THEN Len(table) ELSE 5
        found == { r \in 0..(top - 1) :
                     /\ table[r + 1] # <<>>
                     /\ Cardinality(DOMAIN TempPeriodColsRemaining(table[r + 1])) >= 3 }
    IN  IF found = {} THEN -1 ELSE Least(found)

\* The period import_schedule_smart.py reads from a cell of the third row.
CellPeriodSmart(cell_text) ==
    LET hits == { p \in 1..Len(PeriodNums) :
                    \/ Contains(cell_text, "\n" \o PeriodNums[p] \o "\n")
                    \/ StartsWith(cell_text, PeriodNums[p] \o "\n") }
    IN  IF hits = {} THEN 0 ELSE Least(hits)

\* period_columns of import_schedule_smart.py: read from the third row.
PeriodColsSmart(table) ==
    IF Len(table) > 2 /\ table[3] # <<>>
    THEN LET row == table[3]
             cols == { c \in 0..(Len(row) - 1) :
                         ~Falsy(row[c + 1]) /\ CellPeriodSmart(row[c + 1]) # 0 }
         IN  [c \in cols |-> CellPeriodSmart(row[c + 1])]
    ELSE <<>>

\* The columns of period_columns in the order a variant's loop visits them:
\* by period in import_remaining_floors.py (a stable sort), by column in
\* import_schedule_smart.py.
RECURSIVE ColumnOrder(_, _, _)
ColumnOrder(variant, period_columns, cols) ==
    IF cols = {} THEN <<>>
    ELSE LET c == IF variant = "sparse"
                  THEN CHOOSE x \in cols : \A y \in cols :
                           \/ period_columns[x] < period_columns[y]
                           \/ period_columns[x] = period_columns[y] /\ x <= y
                  ELSE Least(cols)
         IN  <<c>> \o ColumnOrder(variant, period_columns, cols \ {c})

\* The entry one period column of a class row appends in the two importers
\* that emit academic cells only.
ColumnEntry(variant, row, period_columns, class_name, day_num, col_idx) ==
    LET cell == IF col_idx < Len(row) THEN row[col_idx + 1] ELSE None
        pair == IF Falsy(cell) THEN NoPair ELSE ClassifierOf(variant, cell)
    IN  IF Falsy(pair[1]) \/ Falsy(pair[2]) THEN <<>>
        ELSE <<Entry(class_name, pair[2], pair[1], day_num, period_columns[col_idx], FALSE)>>

RECURSIVE ColumnEntries(_, _, _, _, _, _)
ColumnEntries(variant, row, period_columns, class_name, day_num, order) ==
    IF order = <<>> THEN <<>>
    ELSE ColumnEntry(variant, row, period_columns, class_name, day_num, order[1])
             \o ColumnEntries(variant, row, period_columns, class_name, day_num,
                              Tail(order))

\* The labels import_remaining_floors.py takes for no class.
non_class_labels == {"class", "total", "sum"}

\* What one table row appends to all_schedules in each importer.
RowEntriesOf(variant, row, period_columns, day_num) ==
    IF variant = "complete" THEN RowEntries(row, period_columns, day_num)
    ELSE IF row = <<>> \/ Falsy(row[1]) THEN <<>>
    ELSE IF Len(Strip(row[1])) < 2 THEN <<>>
    ELSE IF variant = "sparse" /\ Lower(Strip(row[1])) \in non_class_labels THEN <<>>
    ELSE ColumnEntries(variant, row, period_columns, Strip(row[1]), day_num,
                       ColumnOrder(variant, period_columns, DOMAIN period_columns))

RECURSIVE RowsEntries(_, _, _, _, _)
\* The loop over the rows of a table from row index start_row on.
RowsEntries(variant, table, period_columns, day_num, start_row) ==
    IF start_row >= Len(table) THEN <<>>
    ELSE RowEntriesOf(variant, table[start_row + 1], period_columns, day_num)
             \o RowsEntries(variant, table, period_columns, day_num, start_row + 1)

\* PageResult with the day of a page that names none guessed as Monday.
PageResultDayGuessed(variant, page) ==
    IF page.tables = <<>> THEN [outcome |-> "no_tables", entries |-> <<>>]
    ELSE LET table == page.tables[1]
             found == DayOfPage(variant, table, page.text)
             day_num == IF found = NoDay THEN 0 ELSE found
         IN  IF variant = "smart"
             THEN [outcome |-> "page",
                   entries |-> RowsEntries(variant, table, PeriodColsSmart(table),
                                           day_num, 3)]
             ELSE LET period_row_idx == IF variant = "sparse"
                                        THEN PeriodRowRemaining(table)
                                        ELSE PeriodRow(table)
                  IN  IF period_row_idx = -1
                      THEN [outcome |-> "no_periods", entries |-> <<>>]
                      ELSE [outcome |-> "page",
                            entries |->
                              RowsEntries(variant, table,
                                  IF variant = "sparse"
                                  THEN TempPeriodColsRemaining(table[period_row_idx + 1])
                                  ELSE TempPeriodCols(table[period_row_idx + 1]),
                                  day_num, period_row_idx + 1)]

\* How the loop over pdf.pages ends for a page: the reason it is skipped for,
\* or "page" with the entries it appends.
PageResult(variant, page) ==
    IF page.tables = <<>> THEN [outcome |-> "no_tables", entries |-> <<>>]
    ELSE LET table == page.tables[1]
             day_num == DayOfPage(variant, table, page.text)
         IN  IF day_num = NoDay THEN [outcome |-> "no_day", entries |-> <<>>]
             ELSE IF variant = "smart"
             THEN [outcome |-> "page",
                   entries |-> RowsEntries(variant, table, PeriodColsSmart(table),
                                           day_num, 3)]
             ELSE LET period_row_idx == IF variant = "sparse"
                                        THEN PeriodRowRemaining(table)
                                        ELSE PeriodRow(table)
                  IN  IF period_row_idx = -1
                      THEN [outcome |-> "no_periods", entries |-> <<>>]
                      ELSE [outcome |-> "page",
                            entries |->
                              RowsEntries(variant, table,
                                  IF variant = "sparse"
                                  THEN TempPeriodColsRemaining(table[period_row_idx + 1])
                                  ELSE TempPeriodCols(table[period_row_idx + 1]),
                                  day_num, period_row_idx + 1)]

\* The rows every page of the document starts with: a title, the day row, the
\* period header; one class row follows.
TitleRow == <<"Timetable", None, None, None>>

DayRow == <<None, "MONDAY", None, None>>

PeriodHeader == <<"Class", "1\n08:30", "2\n09:05", "3\n09:40">>

DocClassCells == {"1A", "X", "Total"}

DocDataCells == {"Math\nMr A", "Break", "Snack"}

ClassRows == { <<c, d, None, None>> : c \in DocClassCells, d \in DocDataCells }

BlankRow == <<None, None, None, None>>

\* The pages of a document: one per class row, a page without a table, a page
\* that names no day and a page without a period header.
Pages ==
    { [tables |-> << <<TitleRow, DayRow, PeriodHeader, r>> >>, text |-> None] :
          r \in ClassRows }
    \cup { [tables |-> <<>>, text |-> "Monday Timetable"],
           [tables |-> << <<TitleRow, BlankRow, PeriodHeader,
                            <<"1A", "Math\nMr A", None, None>> >> >>, text |-> None],
           [tables |-> << <<TitleRow, DayRow, <<"Class", None, None, None>>,
                            <<"1A", "Math\nMr A", None, None>> >> >>, text |-> None] }

\* One iteration of the loop over pdf.pages: the page read, how it ended and
\* what it appended are kept next to all_schedules.
ExtractPage(variant, page) ==
    /\ run.phase = "idle"
    /\ \/ pdf.phase = "closed"
       \/ pdf.phase = "doc" /\ pdf.variant = variant /\ Len(pdf.pages) < MaxPages
    /\ LET r == PageResult(variant, page)
           before == IF pdf.phase = "closed" THEN <<>> ELSE pdf.pages
           ends == IF pdf.phase = "closed" THEN <<>> ELSE pdf.outcomes
       IN  /\ pdf' = [phase |-> "doc", variant |-> variant,
                      pages |-> Append(before, page),
                      outcomes |-> Append(ends, r.outcome),
                      emitted |-> r.entries]
           /\ doc' = doc \o r.entries
    /\ UNCHANGED <<floors, classes, teachers, subjects, schedules, run, txDeleted,
                   hist, budget, batch>>

\* main(): the entries extracted, when there are any, go to import_to_database.
ImportDoc ==
    /\ pdf.phase = "doc"
    /\ doc # <<>>
    /\ StartRun(pdf.variant, 1, FALSE)
    /\ batch' = batch

DocStep ==
    \/ /\ run.phase = "idle"
       /\ \E variant \in ClassifierVariants, page \in Pages : ExtractPage(variant, page)
    \/ ImportDoc
    \/ ProcessEntry("none")

NextDoc == DocStep /\ NoAttendance

InitDoc == Init /\ doc = <<>>

SpecDoc == InitDoc /\ [][NextDoc]_vars

(***************************************************************************)
(* Properties of a document read and imported                              *)
(***************************************************************************)

\* The cells of the class rows of the pages read so far that were not
\* skipped, each with the class, day and period it stands for.
DocCells ==
    IF pdf.phase # "doc" THEN {}
    ELSE { [class_name |-> Strip(pdf.pages[i].tables[1][4][1]),
            day |-> TableDay(pdf.pages[i].tables[1]),
            period |-> c - 1,
            cell |-> pdf.pages[i].tables[1][4][c]] :
              i \in { j \in 1..Len(pdf.pages) : pdf.outcomes[j] = "page" },
              c \in 2..4 }

CellKey(x) == <<x.class_name, x.day, TIME_PERIODS[x.period][1]>>

FillerKeys == { CellKey(x) : x \in { y \in DocCells : ~Falsy(y.cell) /\ IsFiller(y.cell) } }

AcademicKeys == { CellKey(x) : x \in { y \in DocCells : ~Falsy(y.cell) /\ ~IsFiller(y.cell) } }

\* The class name, day and start of a Schedule row.
ScheduleKey(s) ==
    <<(CHOOSE c \in classes : c.id = s.class_id).name, s.day_of_week, s.start_time>>

\* C22: in both import modes no Schedule row is persisted for a class, day
\* and period whose table cell is a filler cell (and is not an academic cell
\* on another row or page).
C22_FillerNeverPersisted ==
    \A s \in schedules : ScheduleKey(s) \in FillerKeys => ScheduleKey(s) \in AcademicKeys

\* The class row of the page read last, when the page was not skipped.
LastRow == pdf.pages[Len(pdf.pages)].tables[1][4]

\* The first column is not empty, has two characters or more after trimming
\* and is not the label 'class' or 'total'.
CandidateClassRow(row) ==
    /\ ~Falsy(row[1])
    /\ Len(Strip(row[1])) >= 2
    /\ Lower(Strip(row[1])) \notin {"class", "total"}

\* C23: in every extraction mode a data row yields entries only if its first
\* column is non-empty, has at least 2 characters after trimming and is not a
\* non-class label such as 'class' or 'total', and a row that is one and has
\* an academic cell does yield entries.
C23_ClassRowFilter ==
    (pdf.phase = "doc" /\ pdf.outcomes[Len(pdf.outcomes)] = "page") =>
        /\ pdf.emitted # <<>> => CandidateClassRow(LastRow)
        /\ (CandidateClassRow(LastRow) /\ LastRow[2] = "Math\nMr A") => pdf.emitted # <<>>

\* Some cell of the first rows of the table names a day.
TableNamesDay(table) ==
    \E r \in 1..Len(table) : \E c \in 1..Len(table[r]) :
        r <= 3 /\ ~Falsy(table[r][c]) /\ NamesDay(table[r][c])

\* Some row of the table has three cells or more that start with a period
\* numeral.
TableHasPeriodHeader(table) ==
    \E r \in 1..Len(table) :
        Cardinality({ c \in 1..Len(table[r]) :
                        /\ ~Falsy(table[r][c])
                        /\ \E p \in 1..Len(PeriodNums) :
                               StartsWith(table[r][c], PeriodNums[p]) }) >= 3

\* The page has no table, names no day or has no period-header row.
Unparseable(page) ==
    \/ page.tables = <<>>
    \/ /\ ~TableNamesDay(page.tables[1])
       /\ (Falsy(page.text) \/ ~NamesDay(page.text))
    \/ ~TableHasPeriodHeader(page.tables[1])

\* The step reads one more page of the document.
PageRead == pdf'.phase = "doc" /\ pdf' # pdf

\* C24: a page with no table, no resolvable day or no period-header row adds
\* no entry and does not end the extraction: the entries of the pages before
\* it stay in the result and a page after it still adds its entries.
C24_UnparseablePageSkipped ==
    [][PageRead =>
          LET page == pdf'.pages[Len(pdf'.pages)]
          IN  /\ Len(doc') >= Len(doc) /\ SubSeq(doc', 1, Len(doc)) = doc
              /\ Unparseable(page) => doc' = doc
              /\ (/\ ~Unparseable(page)
                  /\ page.tables[1][4] = <<"1A", "Math\nMr A", None, None>>)
                    => /\ Len(doc') > Len(doc)
                       /\ doc'[Len(doc) + 1].class_name = "1A"
                       /\ doc'[Len(doc) + 1].subject = "Math"]_vars

\* C24 witness: a page that names no day lies between two pages that are read,
\* or before one, and the result holds the entries of the pages around it.
C24_Witness ==
    /\ pdf.phase = "doc"
    /\ Len(pdf.pages) = 2
    /\ Unparseable(pdf.pages[1])
    /\ ~Unparseable(pdf.pages[2])
    /\ pdf.outcomes = <<"no_day", "page">>
    /\ doc # <<>>

(***************************************************************************)
(* Properties of the clear step                                            *)
(***************************************************************************)

\* The Schedule rows whose class is a class of the floor with that number.
SchedulesOnFloorNumber(number) ==
    { s \in schedules :
        \E c \in classes, f \in floors :
            c.id = s.class_id /\ c.floor_id = f.id /\ f.number = number }

\* The clear step of the run commits in this step.
ClearCommits == run.phase = "clear" /\ run'.phase \in {"loop", "done"}

\* C25: the clear step of a complete import on floor F removes all and only
\* the Schedule rows whose class belongs to floor F.  The Schedule rows of
\* other floors and the Floor and Class rows are unchanged; no Teacher or
\* Subject row is changed or removed (the step ends with the statements that
\* add the 'No Teacher' and 'Free Period' rows when they are missing).
C25_ClearScope ==
    /\ [][ClearCommits =>
            /\ schedules' = schedules \ SchedulesOnFloorNumber(run.floor_number)
            /\ floors' = floors /\ classes' = classes
            /\ teachers \subseteq teachers'
            /\ \A t \in teachers' \ teachers : t.name = NoTeacherName
            /\ subjects \subseteq subjects'
            /\ \A x \in subjects' \ subjects : x.name = FreeSubjectName]_vars
    /\ [][(run.phase = "clear" /\ run'.phase = "clear") => store' = store]_vars

\* C25 witness: the clear step has just removed the rows of its floor and the
\* rows of another floor are still there.
C25_Witness ==
    /\ run.clear /\ run.phase = "loop" /\ run.idx = 1
    /\ hist.old # {}
    /\ SchedulesOnFloorNumber(run.floor_number) = {}
    /\ \E n \in {1, 2} : n # run.floor_number /\ SchedulesOnFloorNumber(n) # {}

(***************************************************************************)
(* Several import_to_database runs at once against one database, each a    *)
(* process of its own with the same one-entry document.  Every query and   *)
(* every insert with its commit is one step; nothing in the importers      *)
(* serializes the runs.  batch holds the position of each run and whether  *)
(* two runs have overlapped.  Floor.number and Subject.name are declared   *)
(* unique: a second insert of the same value raises.                       *)
(***************************************************************************)

MaxImporters == 2

Importers == 1..MaxImporters

IdleImporter ==
    [pc |-> "idle", floor_id |-> 0, class_id |-> 0, teacher_id |-> 0, subject_id |-> 0]

\* The position of run p inside import_to_database.
Importer(p) == IF batch.phase = "idle" THEN IdleImporter ELSE batch.procs[p]

\* Run p is inside import_to_database.
Busy(p) == Importer(p).pc \notin {"idle", "done", "aborted"}

\* Some step so far was taken by a run while another run was under way.
Overlapped == batch.phase # "idle" /\ batch.overlapped

\* Run p moves to a new position; the other runs stay where they are.
Moves(p, to) ==
    batch' = [phase |-> "concurrent", variant |-> "sparse", pos |-> 0, outcomes |-> <<>>,
              procs |-> [q \in Importers |-> IF q = p THEN to ELSE Importer(q)],
              overlapped |-> Overlapped \/ \E q \in Importers \ {p} : Busy(q)]

\* What a step on one table leaves alone.
Untouched == UNCHANGED <<doc, run, txDeleted, hist, budget, pdf>>

\* import_to_database is called with the document.
ImporterStart(p) ==
    /\ Importer(p).pc = "idle"
    /\ Moves(p, [Importer(p) EXCEPT !.pc = "floor"])
    /\ UNCHANGED store /\ Untouched

\* Floor.query.filter_by(number=floor_number).first()
FloorQuery(p) ==
    /\ Importer(p).pc = "floor"
    /\ LET match == { f \in floors : f.number = 1 }
       IN  Moves(p, IF match = {} THEN [Importer(p) EXCEPT !.pc = "floor_insert"]
                    ELSE [Importer(p) EXCEPT !.pc = "class", !.floor_id = First(match).id])
    /\ UNCHANGED store /\ Untouched

\* db.session.add(floor); db.session.commit(): outside the loop's try, the
\* unique number raises out of import_to_database.
FloorInsert(p) ==
    /\ Importer(p).pc = "floor_insert"
    /\ IF \E f \in floors : f.number = 1
       THEN /\ floors' = floors
            /\ Moves(p, [Importer(p) EXCEPT !.pc = "aborted"])
       ELSE /\ floors' = floors \cup { [id |-> NextId(floors), number |-> 1] }
            /\ Moves(p, [Importer(p) EXCEPT !.pc = "class", !.floor_id = NextId(floors)])
    /\ UNCHANGED <<classes, teachers, subjects, schedules>> /\ Untouched

\* Class.query.filter_by(name=class_name, floor_id=floor.id).first()
ClassQuery(p) ==
    /\ Importer(p).pc = "class"
    /\ LET match == { c \in classes : c.name = doc[1].class_name
                                       /\ c.floor_id = Importer(p).floor_id }
       IN  Moves(p, IF match = {} THEN [Importer(p) EXCEPT !.pc = "class_insert"]
                    ELSE [Importer(p) EXCEPT !.pc = "teacher", !.class_id = First(match).id])
    /\ UNCHANGED store /\ Untouched

ClassInsert(p) ==
    /\ Importer(p).pc = "class_insert"
    /\ classes' = classes \cup { [id |-> NextId(classes), name |-> doc[1].class_name,
                                  floor_id |-> Importer(p).floor_id] }
    /\ Moves(p, [Importer(p) EXCEPT !.pc = "teacher", !.class_id = NextId(classes)])
    /\ UNCHANGED <<floors, teachers, subjects, schedules>> /\ Untouched

\* Teacher.query.filter_by(name=teacher_name).first()
TeacherQuery(p) ==
    /\ Importer(p).pc = "teacher"
    /\ LET match == { t \in teachers : t.name = doc[1].teacher }
       IN  Moves(p, IF match = {} THEN [Importer(p) EXCEPT !.pc = "teacher_insert"]
                    ELSE [Importer(p) EXCEPT !.pc = "subject", !.teacher_id = First(match).id])
    /\ UNCHANGED store /\ Untouched

TeacherInsert(p) ==
    /\ Importer(p).pc = "teacher_insert"
    /\ teachers' = teachers \cup { [id |-> NextId(teachers), name |-> doc[1].teacher] }
    /\ Moves(p, [Importer(p) EXCEPT !.pc = "subject", !.teacher_id = NextId(teachers)])
    /\ UNCHANGED <<floors, classes, subjects, schedules>> /\ Untouched

\* Subject.query.filter_by(name=subject_name).first()
SubjectQuery(p) ==
    /\ Importer(p).pc = "subject"
    /\ LET match == { s \in subjects : s.name = doc[1].subject }
       IN  Moves(p, IF match = {} THEN [Importer(p) EXCEPT !.pc = "subject_insert"]
                    ELSE [Importer(p) EXCEPT !.pc = "exists", !.subject_id = First(match).id])
    /\ UNCHANGED store /\ Untouched

\* The unique name raises inside the loop's try: rollback, the entry is an error.
SubjectInsert(p) ==
    /\ Importer(p).pc = "subject_insert"
    /\ IF \E s \in subjects : s.name = doc[1].subject
       THEN /\ subjects' = subjects
            /\ Moves(p, [Importer(p) EXCEPT !.pc = "done"])
       ELSE /\ subjects' = subjects \cup { [id |-> NextId(subjects),
                                            name |-> doc[1].subject] }
            /\ Moves(p, [Importer(p) EXCEPT !.pc = "exists", !.subject_id = NextId(subjects)])
    /\ UNCHANGED <<floors, classes, teachers, schedules>> /\ Untouched

\* existing = Schedule.query.filter_by(...).first(); `if existing: continue`
ScheduleQuery(p) ==
    /\ Importer(p).pc = "exists"
    /\ Moves(p, IF ExistingSchedule(schedules, Importer(p).class_id, doc[1]) # {}
                THEN [Importer(p) EXCEPT !.pc = "done"]
                ELSE [Importer(p) EXCEPT !.pc = "schedule_insert"])
    /\ UNCHANGED store /\ Untouched

\* db.session.add(schedule); db.session.commit()
ScheduleInsert(p) ==
    /\ Importer(p).pc = "schedule_insert"
    /\ schedules' = schedules \cup
          { [id |-> NextId(schedules), class_id |-> Importer(p).class_id,
             teacher_id |-> Importer(p).teacher_id, subject_id |-> Importer(p).subject_id,
             day_of_week |-> doc[1].day, start_time |-> doc[1].start_time,
             end_time |-> doc[1].end_time] }
    /\ Moves(p, [Importer(p) EXCEPT !.pc = "done"])
    /\ UNCHANGED <<floors, classes, teachers, subjects>> /\ Untouched

ConcurrentStep ==
    \E p \in Importers :
        \/ ImporterStart(p)
        \/ FloorQuery(p)
        \/ FloorInsert(p)
        \/ ClassQuery(p)
        \/ ClassInsert(p)
        \/ TeacherQuery(p)
        \/ TeacherInsert(p)
        \/ SubjectQuery(p)
        \/ SubjectInsert(p)
        \/ ScheduleQuery(p)
        \/ ScheduleInsert(p)

NextConcurrent == ConcurrentStep /\ NoAttendance

InitConcurrent == Init /\ doc = <<Entry("1A", "T1", "Math", 0, 1, FALSE)>>

SpecConcurrent == InitConcurrent /\ [][NextConcurrent]_vars

(***************************************************************************)
(* Properties of concurrent imports                                        *)
(***************************************************************************)

\* Two Schedule rows share one natural key.
DuplicateSchedule ==
    \E a, b \in schedules : a # b /\ NaturalKey(a) = NaturalKey(b)

\* Two Class rows of one floor, or two Teacher rows, share one name.
DuplicateEntity ==
    \/ \E a, b \in classes : a # b /\ a.name = b.name /\ a.floor_id = b.floor_id
    \/ \E a, b \in teachers : a # b /\ a.name = b.name

\* C26: as long as no import run has taken a step while another was under
\* way, no two Schedule rows share a natural key and no two Class or Teacher
\* rows share a name; runs that overlap can reach such a state (the witness).
C26_SerializedImportsSafe ==
    ~Overlapped => (~DuplicateSchedule /\ ~DuplicateEntity)

\* C26 witness: two overlapping runs have both passed the exists check before
\* either inserted, and two Schedule rows share one natural key.
C26_Witness ==
    /\ Overlapped
    /\ \A p \in Importers : Importer(p).pc = "done"
    /\ DuplicateSchedule

(***************************************************************************)
(* mark_attendance of app.py, served between import runs next to the       *)
(* delete handlers, on a database the importers fill.                      *)
(***************************************************************************)

MaxDates == 2

MaxMarks == 2

\* status, actual_time and notes of the form: an empty actual_time, 08:20 or
\* 08:40 (the first period starts at 08:30).
FormStatus == {"Present", "Late", "Absent"}

FormArrivals == {NoTime, 500, 520}

FormNotes == {"", "sick"}

\* mark_attendance without the query for the row of the day.
ExistingAttendanceNone(rows, schedule_id, date) == {}

\* Attendance.query.filter_by(schedule_id=schedule_id, date=current_date)
ExistingAttendance(rows, schedule_id, date) ==
    { a \in rows : a.schedule_id = schedule_id /\ a.date = date }

\* max(0, minutes between the scheduled start and the arrival)
MinutesLate(start_time, actual_time) ==
    IF actual_time - start_time < 0 THEN 0 ELSE actual_time - start_time

mark_attendance(schedule_id, status, actual_time, notes) ==
    /\ RunOver
    /\ request.n < MaxMarks
    /\ schedule_id \in Ids(schedules)
    /\ LET schedule == Row(schedules, schedule_id)
           existing == ExistingAttendance(attendances, schedule_id, today)
           late == status = "Late" /\ actual_time # NoTime
           arrival == IF late THEN actual_time ELSE NoTime
           minutes == IF late THEN MinutesLate(schedule.start_time, actual_time)
                      ELSE NoMinutes
       IN  attendances' =
             IF existing # {}
             THEN { IF a = First(existing)
                    THEN [a EXCEPT !.status = status, !.notes = notes,
                                   !.actual_time = arrival, !.minutes_late = minutes]
                    ELSE a : a \in attendances }
             ELSE attendances \cup
                    { [id |-> NextId(attendances), schedule_id |-> schedule_id,
                       class_id |-> schedule.class_id, teacher_id |-> schedule.teacher_id,
                       date |-> today, status |-> status, notes |-> notes,
                       actual_time |-> arrival, minutes_late |-> minutes] }
    /\ request' = [n |-> request.n + 1, schedule_id |-> schedule_id, status |-> status,
                   actual_time |-> actual_time, notes |-> notes]
    /\ UNCHANGED <<floors, classes, teachers, subjects, schedules, doc, run, txDeleted,
                   hist, budget, pdf, batch, today>>

\* Midnight: datetime.now().date() is the next day.
NextDate ==
    /\ today < MaxDates
    /\ today' = today + 1
    /\ UNCHANGED <<floors, classes, teachers, subjects, schedules, doc, run, txDeleted,
                   hist, budget, pdf, batch, attendances, request>>

AttendanceStep ==
    \/ ImportStep /\ NoAttendance
    \/ \E id \in FormIds, st \in FormStatus, at \in FormArrivals, nt \in FormNotes :
          mark_attendance(id, st, at, nt)
    \/ \E id \in FormIds : delete_schedule(id)
    \/ \E id \in FormIds : delete_class(id)
    \/ \E id \in FormIds : delete_floor(id)
    \/ NextDate

NextAttendance == AttendanceStep

InitAttendance == Init /\ doc = <<Entry("1A", "T1", "Math", 0, 1, FALSE)>>

SpecAttendance == InitAttendance /\ [][NextAttendance]_vars

\* The Attendance rows of a schedule on a date, in a given table.
RowsOfDay(rows, schedule_id, date) ==
    { a \in rows : a.schedule_id = schedule_id /\ a.date = date }

\* The step serves a mark_attendance request.
Marks == request'.n # request.n

\* What a served request leaves: one row for the schedule and the day, with the
\* form's status and notes, and an arrival only for Late with an arrival time;
\* a row that was there is the one that is kept, and no other row changes.
MarkedOnce ==
    LET before == RowsOfDay(attendances, request'.schedule_id, today)
        after == RowsOfDay(attendances', request'.schedule_id, today)
        late == request'.status = "Late" /\ request'.actual_time # NoTime
    IN  /\ Cardinality(after) = 1
        /\ before # {} =>
              /\ Cardinality(attendances') = Cardinality(attendances)
              /\ attendances' \ after = attendances \ before
              /\ \A a \in after : \E b \in before :
                    /\ a.id = b.id
                    /\ a.class_id = b.class_id /\ a.teacher_id = b.teacher_id
        /\ \A a \in after :
              /\ a.status = request'.status
              /\ a.notes = request'.notes
              /\ IF late
                 THEN a.actual_time = request'.actual_time /\ a.minutes_late >= 0
                 ELSE a.actual_time = NoTime /\ a.minutes_late = NoMinutes

\* C27: there is at most one Attendance row per (schedule_id, date), and a
\* mark_attendance request for a schedule that has a row for the day updates
\* that row (status, notes, actual_time and minutes_late NULL unless the status
\* is Late with an arrival time) instead of adding a second one.
C27_AttendanceUnique ==
    /\ [](\A a, b \in attendances :
             a.schedule_id = b.schedule_id /\ a.date = b.date => a = b)
    /\ [][Marks => MarkedOnce]_vars

\* One import run, then two requests on the same day for its schedule, the
\* second one Present after a first one that is still the only row.
C27_Witness ==
    /\ budget.runs = 1 /\ RunOver
    /\ today = 1 /\ request.n = 2
    /\ Cardinality(attendances) = 1
    /\ \A a \in attendances :
          /\ a.schedule_id = request.schedule_id
          /\ a.status = "Present" /\ a.actual_time = NoTime
          /\ a.minutes_late = NoMinutes

\* The entries of the sequence that have the natural key of entry i, and the
\* first of them in sequence order.
SameKey(i) == { j \in 1..Len(doc) : EntryKey(doc[j]) = EntryKey(doc[i]) }

FirstOfKey(i) == CHOOSE j \in SameKey(i) : \A k \in SameKey(i) : j <= k

\* The Schedule rows of the run's floor that are persisted for entry e.
RowsOfEntry(e) ==
    { s \in schedules :
        /\ s.day_of_week = e.day
        /\ s.start_time = e.start_time /\ s.end_time = e.end_time
        /\ \E c \in classes :
              c.id = s.class_id /\ c.name = e.class_name /\ c.floor_id = run.floor_id }

\* The row names the teacher and the subject of entry e.
Carries(s, e) ==
    /\ \E t \in teachers : t.id = s.teacher_id /\ t.name = e.teacher
    /\ \E x \in subjects : x.id = s.subject_id /\ x.name = e.subject

\* C28: after a run of a well-formed entry sequence (no store failure), every
\* natural key of the sequence has exactly one Schedule row, the row carries
\* the teacher and the subject of the first entry of that key in sequence
\* order, and every later entry of the key is counted as a skipped duplicate.
C28_FirstEntryWins ==
    (run.phase = "done" /\ budget.faults = 0 /\ DocValid)
        => /\ \A i \in 1..Len(doc) :
                /\ Cardinality(RowsOfEntry(doc[i])) = 1
                /\ \A s \in RowsOfEntry(doc[i]) : Carries(s, doc[FirstOfKey(i)])
           /\ DupCounter(run) + run.stats.imported = Len(doc)
           /\ run.stats.imported
                <= Cardinality({ FirstOfKey(i) : i \in 1..Len(doc) })

\* A first run whose two entries share one natural key and name two teachers.
C28_Witness ==
    /\ run.phase = "done" /\ budget.faults = 0 /\ budget.runs = 1 /\ DocValid
    /\ run.variant \in {"sparse", "complete"}
    /\ Len(doc) = 2 /\ EntryKey(doc[1]) = EntryKey(doc[2])
    /\ doc[1].teacher # doc[2].teacher
    /\ DupCounter(run) = 1 /\ run.stats.imported = 1
    /\ Cardinality(schedules) = 1

\* C29 (as claimed): in every variant, processing an entry that is skipped as
\* invalid for a missing required field leaves the persisted store unchanged;
\* no Class or Teacher row is created for it.
C29_InvalidNoWrites ==
    [][(EntryStep /\ hist'.last = "invalid") => store' = store]_vars

\* C30 (as claimed): in every state reached by mark_attendance requests, admin
\* deletes and import runs, every Attendance row's schedule_id is the id of a
\* Schedule row; a clear-existing import leaves no Attendance row that points
\* at a deleted Schedule.
C30_AttendanceIntegrity ==
    \A a \in attendances : a.schedule_id \in Ids(schedules)

====
